---- MODULE Spec2Model ----
(***************************************************************************)
(* MudForge-TUI: the GMCP store (src/src/gmcp_store.rs), the session       *)
(* pipeline of the Telnet client (src/src/telnet_client.rs, main.rs) and   *)
(* the functions of the pipeline called on their own (ansi_color.rs too).  *)
(*                                                                         *)
(* Text is a sequence of code points (naturals).  A JSON value is a flat   *)
(* tree: a function from the paths of its nodes (sequences of keys, the    *)
(* root being <<>>) to nodes [t, v]; a node has children only when it is   *)
(* an object, exactly as in serde_json::Value.                             *)
(***************************************************************************)
EXTENDS Integers, Sequences, FiniteSets, TLC

VARIABLES
    store,      \* GMCPStore.data
    lastOp,     \* store specification: the last call made on the store
    nOps,       \* store specification: number of calls made
    scenario,   \* the byte stream the server sends in this run, and how it ends
    unsent,     \* bytes the server has not sent yet
    segsLeft,   \* segments the server may still cut the rest into
    rcvbuf,     \* bytes arrived at the socket and not read yet
    closed,     \* the server closed the connection, or the connection failed
    writeHalf,  \* write_half is Some
    wlock,      \* holder of the write_half mutex
    wbytes,     \* bytes of the write_all the lock holder is in
    wire,       \* bytes the server has received
    wlog,       \* the write_all calls in lock-acquisition order
    sockBroken, \* a write failed: the connection is broken
    connPc,     \* TelnetClient::connect
    hsDone,     \* handshake writes completed by connect
    cmds,       \* the send_command tasks
    pc,         \* the read task (run_read_loop)
    parserBuf,  \* the decoder's unfinished command
    parserGmcp, \* whether the decoder reports subnegotiations
    evq,        \* events of the current read not handled yet
    outq,       \* messages of the current event not sent yet
    chan,       \* the event channel
    rxOpen,     \* the receiving side exists
    sendLog,    \* every tx.send call completed by the read task: [msg, ok]
    readLog,    \* every read that returned bytes: [raw, primary, fallback]
    lastRead,   \* what the last read returned: "none", "data", "eof", "err"
    nReads,     \* reads returned
    nHandled,   \* decoded events whose handling has begun
    sendFailed, \* some tx.send has failed
    fcall,      \* function specification: the last call of a pure function
    plock,      \* holder of the parser mutex
    slock,      \* holder of the gmcp_store mutex
    raw_bytes,  \* the bytes of the read being decoded
    app,        \* the AppState of the user interface
    uiLog       \* the calls made on it: lines added, and the last call

storeVars == <<lastOp, nOps>>
netVars == <<scenario, unsent, segsLeft, rcvbuf, closed>>
writeVars == <<writeHalf, wlock, wbytes, wire, wlog, sockBroken>>
taskVars == <<connPc, hsDone, cmds>>
readVars == <<pc, parserBuf, parserGmcp, evq, outq, sendLog, readLog, lastRead,
              nReads, nHandled, sendFailed>>
chanVars == <<chan, rxOpen>>
lockVars == <<plock, slock, raw_bytes>>
uiVars == <<app, uiLog>>
vars == <<store, storeVars, fcall, uiVars, lockVars, netVars, writeVars, taskVars, readVars, chanVars>>

(***************************************************************************)
(* Bounds of the model                                                     *)
(***************************************************************************)
\* pieces a buffer given to the fallback scanner is made of, at most
MaxScanTokens == 5
\* pieces a GMCP payload given to parse_gmcp is made of, at most
MaxPayloadTokens == 4
\* pieces a buffer given to parse_ansi_codes is made of, at most
MaxAnsiTokens == 3
\* pieces of a buffer given to parse_ansi_codes after another call, at most
MaxFollowTokens == 1
\* pieces a text given to strip_mxp_tags is made of, at most
MaxMxpTokens == 3
\* pieces a chat text given to parse_gmcp_message is made of, at most
MaxMarkerTokens == 4
\* longest package path, in segments, the store specification draws
MaxDepth == 2
\* number of store calls in one run of the store specification
MaxOps == 3
\* segments the server cuts its stream into, at most
MaxSegments == 3
\* a stream longer than this arrives in one segment
MaxSplitLen == 20
\* send_command calls in one run, at most
MaxCommands == 2
\* calls made on the AppState in one run of the interface specification
MaxUiOps == 5
\* lines a burst of add_mud_output or add_chat_output calls adds
BurstLen == 1000

(***************************************************************************)
(* Text helpers                                                            *)
(***************************************************************************)
\* '.' : the separator of package paths
DOT == 46

Min(a, b) == IF a < b THEN a ELSE b

IsPrefix(p, q) == Len(p) <= Len(q) /\ SubSeq(q, 1, Len(p)) = p

RECURSIVE SplitFrom(_, _, _, _)
SplitFrom(s, sep, i, cur) ==
    IF i > Len(s) THEN <<cur>>
    ELSE IF s[i] = sep THEN <<cur>> \o SplitFrom(s, sep, i + 1, <<>>)
    ELSE SplitFrom(s, sep, i + 1, Append(cur, s[i]))

\* str::split(sep): always at least one segment; empty segments are kept
Split(s, sep) == SplitFrom(s, sep, 1, <<>>)

RECURSIVE Join(_, _)
Join(parts, sep) ==
    IF Len(parts) = 0 THEN <<>>
    ELSE IF Len(parts) = 1 THEN parts[1]
    ELSE parts[1] \o <<sep>> \o Join(Tail(parts), sep)

(***************************************************************************)
(* JSON values (serde_json::Value)                                         *)
(***************************************************************************)
ObjNode == [t |-> "obj", v |-> <<>>]
Atom(t, v) == [t |-> t, v |-> v]

\* Value::Object(Map::new())
EmptyObject == (<<>> :> ObjNode)
JsonNull == (<<>> :> Atom("null", <<>>))
JsonAtom(t, v) == (<<>> :> Atom(t, v))
\* an object with the one key k holding the value val
JsonObject1(k, val) ==
    [q \in {<<>>} \cup {<<k>> \o r : r \in DOMAIN val} |->
        IF q = <<>> THEN ObjNode ELSE val[Tail(q)]]

\* Value::as_object / as_object_mut succeed
IsObject(data, cur) == cur \in DOMAIN data /\ data[cur].t = "obj"

\* the value found at node cur of data
Subtree(data, cur) ==
    LET below == {q \in DOMAIN data : IsPrefix(cur, q)}
    IN [r \in {SubSeq(q, Len(cur) + 1, Len(q)) : q \in below} |-> data[cur \o r]]

\* a faulty insert: the object at node cur is left with the new entry alone
MapInsert_drops_siblings(data, cur, key, value) ==
    LET at == Append(cur, key)
        keep == {q \in DOMAIN data : ~IsPrefix(cur, q) \/ q = cur}
        new == {at \o r : r \in DOMAIN value}
    IN [q \in keep \cup new |->
          IF q \in new THEN value[SubSeq(q, Len(at) + 1, Len(q))] ELSE data[q]]

\* Map::insert(key, value) on the object at node cur: the old entry, with all
\* that was below it, is replaced
MapInsert(data, cur, key, value) ==
    LET at == Append(cur, key)
        keep == {q \in DOMAIN data : ~IsPrefix(at, q)}
        new == {at \o r : r \in DOMAIN value}
    IN [q \in keep \cup new |->
          IF q \in new THEN value[SubSeq(q, Len(at) + 1, Len(q))] ELSE data[q]]

Some(val) == [some |-> TRUE, val |-> val]
None == [some |-> FALSE, val |-> JsonNull]

(***************************************************************************)
(* GMCPStore                                                               *)
(***************************************************************************)
GMCPStore_new == EmptyObject

\* a faulty walk: an intermediate object is inserted anew even where the
\* segment is there already
RECURSIVE UpdateFrom_fresh_intermediate(_, _, _, _, _)
UpdateFrom_fresh_intermediate(data, cur, parts, i, value) ==
    IF i > Len(parts) THEN [ok |-> TRUE, data |-> data]
    ELSE IF i = Len(parts)
    THEN [ok |-> TRUE, data |-> MapInsert(data, cur, parts[i], value)]
    ELSE UpdateFrom_fresh_intermediate(MapInsert(data, cur, parts[i], EmptyObject),
                                       Append(cur, parts[i]), parts, i + 1, value)

\* the loop of update from segment i on, at node cur
RECURSIVE UpdateFrom(_, _, _, _, _)
UpdateFrom(data, cur, parts, i, value) ==
    IF i > Len(parts) THEN [ok |-> TRUE, data |-> data]
    ELSE IF i = Len(parts)
    THEN [ok |-> TRUE, data |-> MapInsert(data, cur, parts[i], value)]
    ELSE LET nxt == Append(cur, parts[i])
             d1 == IF nxt \notin DOMAIN data
                   THEN MapInsert(data, cur, parts[i], EmptyObject)
                   ELSE data
         IN IF IsObject(d1, nxt)
            THEN UpdateFrom(d1, nxt, parts, i + 1, value)
            ELSE [ok |-> FALSE, data |-> d1]    \* expect(...) panics

\* a faulty update: a leaf that exists already is kept, not overwritten
update_keeps_old_leaf(data, package, value) ==
    LET parts == Split(package, DOT)
    IN IF parts \in DOMAIN data
       THEN [ok |-> TRUE, data |-> data]
       ELSE UpdateFrom(data, <<>>, parts, 1, value)

\* GMCPStore::update: ok = FALSE is the panic of one of its expect() calls
update(data, package, value) ==
    IF ~IsObject(data, <<>>) THEN [ok |-> FALSE, data |-> data]
    ELSE UpdateFrom(data, <<>>, Split(package, DOT), 1, value)

RECURSIVE GetFrom(_, _, _, _)
GetFrom(data, cur, parts, i) ==
    IF i > Len(parts) THEN Some(Subtree(data, cur))
    ELSE IF IsObject(data, cur)
    THEN IF Append(cur, parts[i]) \in DOMAIN data
         THEN GetFrom(data, Append(cur, parts[i]), parts, i + 1)
         ELSE None
    ELSE None

\* a faulty walk: a missing segment ends it with the value reached
RECURSIVE GetLenient(_, _, _, _)
GetLenient(data, cur, parts, i) ==
    IF i > Len(parts) THEN Some(Subtree(data, cur))
    ELSE IF IsObject(data, cur) /\ Append(cur, parts[i]) \in DOMAIN data
    THEN GetLenient(data, Append(cur, parts[i]), parts, i + 1)
    ELSE Some(Subtree(data, cur))

\* a faulty get: a missing segment ends the walk with the value reached
get_returns_reached(data, key) == GetLenient(data, <<>>, Split(key, DOT), 1)

\* GMCPStore::get
get(data, key) == GetFrom(data, <<>>, Split(key, DOT), 1)

(***************************************************************************)
(* Bytes and characters                                                    *)
(*                                                                         *)
(* A byte is a natural below 256 and a character a code point.  The code   *)
(* points 128..199 stand for whole ASCII words and whole JSON texts (a     *)
(* word or a JSON text is never cut by a read boundary in this model); all *)
(* other code points are themselves.                                       *)
(***************************************************************************)
IAC == 255
WILL == 251
SB == 250
SE == 240
TELOPT_GMCP == 201
ESC == 27
LF == 10
CR == 13
TAB == 9
SPACE == 32
LBRACE == 123
\* U+FFFD, what String::from_utf8_lossy puts for a byte that is no UTF-8
REPLACEMENT == 65533

\* the words of the model's texts, by the code point that stands for each
W == [char |-> 128, login |-> 129, name |-> 130, comm |-> 131, channel |-> 132,
      look |-> 133, config |-> 134, request |-> 135, vitals |-> 136, maxstats |-> 137,
      room |-> 138, info |-> 139, status |-> 140, group |-> 141, hp |-> 142,
      mana |-> 143, movement |-> 144, maxhp |-> 145, maxmana |-> 146, maxmove |-> 147,
      maxstr |-> 148, maxint |-> 149, maxwis |-> 150, maxdex |-> 151, maxcon |-> 152,
      num |-> 153, zone |-> 154, chan |-> 155, msg |-> 156, player |-> 157,
      level |-> 158, tnl |-> 159, hunger |-> 160, thirst |-> 161, align |-> 162,
      state |-> 163, enemy |-> 164, enemypct |-> 165, groupname |-> 166, leader |-> 167,
      created |-> 168, count |-> 169, kills |-> 170, exp |-> 171, members |-> 172,
      enemies |-> 173, compact |-> 174, prompt |-> 175, xterm |-> 176, yes |-> 177,
      area |-> 178, quest |-> 179, say |-> 180, hi |-> 181]

\* the JSON texts of the model's payloads, by the code point that stands for each
J == [five |-> 190, bob |-> 191, loginBob |-> 192, nameFive |-> 193,
      bad |-> 194, two |-> 195, vitals |-> 196, chat |-> 197, roomTemple |-> 198]

\* a JSON string and a JSON number, each with its text
Str(t) == JsonAtom("str", t)
Num(t) == JsonAtom("num", t)
Bob == <<66, 111, 98>>
Temple == <<84, 101, 109, 112, 108, 101>>
Midgaard == <<77, 105, 100, 103, 97, 97, 114, 100>>
Digit(d) == 48 + d

\* an object with the given keys, each holding the given value
JsonObjectOf(keys, val) ==
    [q \in {<<>>} \cup {<<k>> \o r : k \in keys, r \in DOMAIN val} |->
        IF q = <<>> THEN ObjNode ELSE val[Tail(q)]]

\* {"name":"Temple","zone":"Midgaard"}
TempleRoom ==
    [q \in {<<>>, <<<<W.name>>>>, <<<<W.zone>>>>} |->
        IF q = <<>> THEN ObjNode
        ELSE IF q = <<<<W.name>>>> THEN Atom("str", Temple) ELSE Atom("str", Midgaard)]

\* what serde_json reads from each JSON text; J.bad is no JSON
JsonTexts ==
    (J.five :> Num(<<Digit(5)>>))                             \* 5
 @@ (J.bob :> JsonObject1(<<W.name>>, Str(Bob)))              \* {"name":"Bob"}
 @@ (J.loginBob :> JsonObject1(<<W.char, DOT, W.login>>,
                       JsonObject1(<<W.name>>, Str(Bob))))    \* {"char.login":{"name":"Bob"}}
 @@ (J.nameFive :> JsonObject1(<<W.name>>, Num(<<Digit(5)>>)))  \* {"name":5}
 @@ (J.two :> JsonObjectOf({<<W.name>>, <<W.char>>}, Str(Bob))) \* {"name":"Bob","char":"Bob"}
 @@ (J.vitals :> JsonObjectOf({<<W.hp>>, <<W.mana>>, <<W.movement>>},
                              Num(<<Digit(5)>>)))             \* {"hp":5,"mana":5,"movement":5}
 @@ (J.chat :> JsonObjectOf({<<W.chan>>, <<W.msg>>, <<W.player>>},
                            Str(<<W.hi>>)))                   \* {"chan":"hi","msg":"hi","player":"hi"}
 @@ (J.roomTemple :> JsonObject1(<<W.room, DOT, W.info>>, TempleRoom))
                                     \* {"room.info":{"name":"Temple","zone":"Midgaard"}}

\* the JSON texts that begin with '{'
BraceTexts == {J.bob, J.loginBob, J.nameFive, J.bad, J.two, J.vitals, J.chat, J.roomTemple}

\* char::is_whitespace
IsWhitespace(c) == c \in {SPACE, LF, CR, TAB}

RECURSIVE TrimStart(_)
TrimStart(s) == IF Len(s) > 0 /\ IsWhitespace(s[1]) THEN TrimStart(Tail(s)) ELSE s

RECURSIVE TrimEnd(_)
TrimEnd(s) ==
    IF Len(s) > 0 /\ IsWhitespace(s[Len(s)]) THEN TrimEnd(SubSeq(s, 1, Len(s) - 1)) ELSE s

\* str::trim
Trim(s) == TrimEnd(TrimStart(s))

\* the code points that stand for ASCII text
IsTextUnit(b) == b >= 128 /\ b < 200

\* String::from_utf8_lossy: ASCII stays; the other bytes of the model (the
\* Telnet command and option bytes) are part of no UTF-8 sequence and each
\* becomes U+FFFD
from_utf8_lossy(bytes) ==
    [i \in 1..Len(bytes) |->
        IF bytes[i] < 128 \/ IsTextUnit(bytes[i]) THEN bytes[i] ELSE REPLACEMENT]

Ok(val) == [ok |-> TRUE, val |-> val]
Err == [ok |-> FALSE, val |-> JsonNull]

\* serde_json::from_str::<Value>: one JSON text, white space around it allowed
from_str(s) ==
    LET t == Trim(s)
    IN IF Len(t) = 1 /\ t[1] \in DOMAIN JsonTexts THEN Ok(JsonTexts[t[1]]) ELSE Err

\* the keys of an object value
ObjectKeys(val) == {q[1] : q \in {r \in DOMAIN val : Len(r) = 1}}

\* index of the first element of s, from i on, that satisfies whitespace; 0 if none
RECURSIVE FirstWhitespace(_, _)
FirstWhitespace(s, i) ==
    IF i > Len(s) THEN 0 ELSE IF IsWhitespace(s[i]) THEN i ELSE FirstWhitespace(s, i + 1)

(***************************************************************************)
(* Colours and spans (ratatui Color, Span; src/src/ansi_color.rs)          *)
(***************************************************************************)
White == <<"White", 0, 0, 0>>
Reset == <<"Reset", 0, 0, 0>>
NoColor == <<"None", 0, 0, 0>>
Rgb(r, g, b) == <<"Rgb", r, g, b>>

\* the 16 fixed entries of the 256-colour table
Palette16 ==
    << Rgb(0, 0, 0), Rgb(128, 0, 0), Rgb(0, 128, 0), Rgb(128, 128, 0),
       Rgb(0, 0, 128), Rgb(128, 0, 128), Rgb(0, 128, 128), Rgb(192, 192, 192),
       Rgb(128, 128, 128), Rgb(255, 0, 0), Rgb(0, 255, 0), Rgb(255, 255, 0),
       Rgb(0, 0, 255), Rgb(255, 0, 255), Rgb(0, 255, 255), Rgb(255, 255, 255) >>

\* "as u8"
AsU8(n) == n % 256

\* a faulty table: the grayscale ramp in steps of 11
Xterm_gray_step_11(i) ==
    IF i < 16 THEN Palette16[i + 1]
    ELSE IF i < 232
    THEN Rgb(AsU8(((i - 16) \div 36) * 51), AsU8((((i - 16) % 36) \div 6) * 51),
             AsU8(((i - 16) % 6) * 51))
    ELSE Rgb(AsU8(8 + (i - 232) * 11), AsU8(8 + (i - 232) * 11), AsU8(8 + (i - 232) * 11))

\* the entry "38;5;i" of COLOR_MAP, i in 0..255
Xterm(i) ==
    IF i < 16 THEN Palette16[i + 1]
    ELSE IF i < 232
    THEN LET index == i - 16
         IN Rgb(AsU8((index \div 36) * 51), AsU8(((index % 36) \div 6) * 51),
                AsU8((index % 6) * 51))
    ELSE LET gray == 8 + (i - 232) * 10
         IN Rgb(AsU8(gray), AsU8(gray), AsU8(gray))

IsDigit(c) == c >= 48 /\ c <= 57

RECURSIVE DecimalValue(_)
DecimalValue(ds) ==
    IF Len(ds) = 0 THEN 0
    ELSE 10 * DecimalValue(SubSeq(ds, 1, Len(ds) - 1)) + (ds[Len(ds)] - 48)

\* str::parse::<u8>: decimal digits (an optional leading '+'), value at most 255
ParseU8(t) ==
    LET ds == IF Len(t) > 0 /\ t[1] = 43 THEN Tail(t) ELSE t
    IN IF Len(ds) > 0 /\ (\A i \in 1..Len(ds) : IsDigit(ds[i])) /\ DecimalValue(ds) <= 255
       THEN [ok |-> TRUE, val |-> DecimalValue(ds)]
       ELSE [ok |-> FALSE, val |-> 0]

\* format!("{}", i): the decimal text of i
RECURSIVE Format(_)
Format(i) == IF i < 10 THEN <<48 + i>> ELSE Append(Format(i \div 10), 48 + (i % 10))

\* Span::styled(text, Style::default().fg(fg)) and with .bg(bg)
Span(text, fg, bg) == [content |-> text, fg |-> fg, bg |-> bg]

(***************************************************************************)
(* parse_gmcp_message: the inline colour markers of a chat text            *)
(***************************************************************************)
DOLLAR == 36
CH_x == 120

\* a faulty marker: $x never selects a colour of the table
XMarkerColor_white(num_str) == White

\* convert_color_marker (telnet_client.rs) on the marker "$x" \o digits
XMarkerColor(num_str) ==
    LET n == ParseU8(num_str)
    IN IF n.ok THEN Xterm(n.val) ELSE White

\* a faulty marker table: the lower-case w is no marker
LetterColor_upper_only(c) ==
    CASE c = 71 -> [some |-> TRUE, col |-> Rgb(0, 255, 0)]
      [] c = 77 -> [some |-> TRUE, col |-> Rgb(255, 0, 255)]
      [] c = 82 -> [some |-> TRUE, col |-> Rgb(255, 0, 0)]
      [] c = 89 -> [some |-> TRUE, col |-> Rgb(255, 255, 0)]
      [] c = 66 -> [some |-> TRUE, col |-> Rgb(0, 0, 255)]
      [] c = 67 -> [some |-> TRUE, col |-> Rgb(0, 255, 255)]
      [] c = 87 -> [some |-> TRUE, col |-> Rgb(255, 255, 255)]
      [] OTHER -> [some |-> FALSE, col |-> White]

\* the single-letter markers $G $M $R $Y $B $C $w $W
LetterColor(c) ==
    CASE c = 71 -> [some |-> TRUE, col |-> Rgb(0, 255, 0)]
      [] c = 77 -> [some |-> TRUE, col |-> Rgb(255, 0, 255)]
      [] c = 82 -> [some |-> TRUE, col |-> Rgb(255, 0, 0)]
      [] c = 89 -> [some |-> TRUE, col |-> Rgb(255, 255, 0)]
      [] c = 66 -> [some |-> TRUE, col |-> Rgb(0, 0, 255)]
      [] c = 67 -> [some |-> TRUE, col |-> Rgb(0, 255, 255)]
      [] c \in {119, 87} -> [some |-> TRUE, col |-> Rgb(255, 255, 255)]
      [] OTHER -> [some |-> FALSE, col |-> White]

\* index after the digits that start at i
RECURSIVE SkipDigits(_, _)
SkipDigits(s, i) == IF i <= Len(s) /\ IsDigit(s[i]) THEN SkipDigits(s, i + 1) ELSE i

Flush(spans, text, color) ==
    IF Len(text) > 0 THEN Append(spans, Span(text, color, NoColor)) ELSE spans

RECURSIVE MarkerScan(_, _, _, _, _)
MarkerScan(msg, i, spans, text, color) ==
    IF i > Len(msg) THEN Flush(spans, text, color)
    ELSE IF msg[i] = DOLLAR /\ i + 1 <= Len(msg)
    THEN IF msg[i + 1] = CH_x
         THEN LET j == SkipDigits(msg, i + 2)
              IN MarkerScan(msg, j, Flush(spans, text, color), <<>>,
                            XMarkerColor(SubSeq(msg, i + 2, j - 1)))
         ELSE IF LetterColor(msg[i + 1]).some
         THEN MarkerScan(msg, i + 2, Flush(spans, text, color), <<>>,
                         LetterColor(msg[i + 1]).col)
         ELSE MarkerScan(msg, i + 1, spans, Append(text, msg[i]), color)
    ELSE MarkerScan(msg, i + 1, spans, Append(text, msg[i]), color)

parse_gmcp_message(msg) == MarkerScan(msg, 1, <<>>, <<>>, White)

(***************************************************************************)
(* GMCP payloads: parse_gmcp and the typed packages                        *)
(***************************************************************************)
NoPackage == [some |-> FALSE, package |-> <<>>, value |-> JsonNull]

\* a faulty split: the payload is cut at its first whitespace even when the
\* whole of it is a JSON object with one key
parse_gmcp_split_only(data) ==
    LET trimmed == Trim(data)
        ws == FirstWhitespace(trimmed, 1)
        second == from_str(Trim(SubSeq(trimmed, ws + 1, Len(trimmed))))
    IN IF ws # 0 /\ second.ok
       THEN [some |-> TRUE, package |-> SubSeq(trimmed, 1, ws - 1), value |-> second.val]
       ELSE NoPackage

\* parse_gmcp
parse_gmcp(data) ==
    LET trimmed == Trim(data)
        whole == from_str(trimmed)
        ws == FirstWhitespace(trimmed, 1)
        package == IF ws = 0 THEN trimmed ELSE SubSeq(trimmed, 1, ws - 1)
        json_part == IF ws = 0 THEN <<>> ELSE SubSeq(trimmed, ws + 1, Len(trimmed))
        second == from_str(Trim(json_part))
    IN IF whole.ok /\ IsObject(whole.val, <<>>) /\ Cardinality(ObjectKeys(whole.val)) = 1
       THEN LET k == CHOOSE k \in ObjectKeys(whole.val) : TRUE
            IN [some |-> TRUE, package |-> k, value |-> Subtree(whole.val, <<k>>)]
       ELSE IF ws # 0 /\ second.ok
       THEN [some |-> TRUE, package |-> package, value |-> second.val]
       ELSE NoPackage

\* the structs of the known packages: the fields each requires, with the JSON
\* type of each (i32 and i64: a number; String: a string; Vec: an array)
Fields(strs, nums, arrs) ==
    {<<k, "str">> : k \in strs} \cup {<<k, "num">> : k \in nums}
        \cup {<<k, "arr">> : k \in arrs}

CharLogin == Fields({W.name}, {}, {})
CharVitals == Fields({}, {W.hp, W.mana, W.movement}, {})
CharMaxStats == Fields({}, {W.maxhp, W.maxmana, W.maxmove, W.maxstr, W.maxint,
                            W.maxwis, W.maxdex, W.maxcon}, {})
RoomInfo == Fields({W.name, W.zone}, {W.num}, {})
CommChannel == Fields({W.chan, W.msg, W.player}, {}, {})
CharStatus == Fields({W.state, W.enemy}, {W.level, W.tnl, W.hunger, W.thirst,
                                          W.align, W.enemypct}, {})
GroupInfo == Fields({W.groupname, W.leader, W.created, W.status},
                    {W.count, W.kills, W.exp}, {W.members, W.enemies})

\* serde_json::from_value::<T> succeeds: the value is an object holding every
\* field of T with its type (fields T does not name are ignored)
Deserializes(value, fields) ==
    /\ IsObject(value, <<>>)
    /\ \A f \in fields : /\ <<<<f[1]>>>> \in DOMAIN value
                         /\ value[<<<<f[1]>>>>].t = f[2]

\* the text of field k of an object value
Field(value, k) == value[<<<<k>>>>].v

\* TelnetMessage
Message(type, vals, line) == [type |-> type, vals |-> vals, line |-> line]
Disconnect == Message("Disconnect", <<>>, <<>>)

NoMessage == [some |-> FALSE, msg |-> Disconnect]
SomeMessage(m) == [some |-> TRUE, msg |-> m]

\* the match on package.as_str() of parse_known_gmcp_modules
KnownModule(package, v) ==
            CASE package = <<W.char, DOT, W.login>> ->
                   IF Deserializes(v, CharLogin)
                   THEN SomeMessage(Message("CharLogin", <<Field(v, W.name)>>, <<>>))
                   ELSE NoMessage
              [] package = <<W.char, DOT, W.vitals>> ->
                   IF Deserializes(v, CharVitals)
                   THEN SomeMessage(Message("CharVitals",
                            <<Field(v, W.hp), Field(v, W.mana), Field(v, W.movement)>>, <<>>))
                   ELSE NoMessage
              [] package = <<W.char, DOT, W.maxstats>> ->
                   IF Deserializes(v, CharMaxStats)
                   THEN SomeMessage(Message("CharMaxStats",
                            <<Field(v, W.maxhp), Field(v, W.maxmana), Field(v, W.maxmove)>>, <<>>))
                   ELSE NoMessage
              [] package = <<W.room, DOT, W.info>> ->
                   IF Deserializes(v, RoomInfo)
                   THEN SomeMessage(Message("RoomInfo",
                            <<Field(v, W.name), Field(v, W.zone)>>, <<>>))
                   ELSE NoMessage
              [] package = <<W.comm, DOT, W.channel>> ->
                   IF Deserializes(v, CommChannel)
                   THEN SomeMessage(Message("ChatMessage", <<>>,
                            parse_gmcp_message(Field(v, W.msg))))
                   ELSE NoMessage
              [] package = <<W.char, DOT, W.status>> ->
                   IF Deserializes(v, CharStatus)
                   THEN SomeMessage(Message("CharStatus",
                            <<Field(v, W.level), Field(v, W.tnl), Field(v, W.enemypct)>>, <<>>))
                   ELSE NoMessage
              [] package = <<W.group>> ->
                   IF Deserializes(v, GroupInfo)
                   THEN SomeMessage(Message("GroupInfo", <<Field(v, W.groupname)>>, <<>>))
                   ELSE NoMessage
              [] OTHER -> NoMessage

\* let (package, value) = parse_gmcp(gmcp_str)?
KnownParsed(g) == IF g.some THEN KnownModule(g.package, g.value) ELSE NoMessage

\* parse_known_gmcp_modules
parse_known_gmcp_modules(gmcp_str) == KnownParsed(parse_gmcp(gmcp_str))

(***************************************************************************)
(* parse_ansi_codes (src/src/ansi_color.rs)                                *)
(***************************************************************************)
LBRACKET == 91
CH_m == 109
SEMI == 59

\* the first index >= i at which pat occurs in s; 0 if none
Find(s, pat, i) ==
    LET at == {j \in i..(Len(s) - Len(pat) + 1) : SubSeq(s, j, j + Len(pat) - 1) = pat}
    IN IF at = {} THEN 0 ELSE CHOOSE j \in at : \A k \in at : j <= k

StartsWith(s, pat) == Len(pat) <= Len(s) /\ SubSeq(s, 1, Len(pat)) = pat

\* str::replace(pat, ""): the occurrences of pat, left to right, not overlapping
RECURSIVE Remove(_, _)
Remove(s, pat) ==
    LET at == Find(s, pat, 1)
    IN IF at = 0 THEN s
       ELSE SubSeq(s, 1, at - 1) \o Remove(SubSeq(s, at + Len(pat), Len(s)), pat)

MXP_OPEN == <<60, 77, 88, 80, 62>>          \* <MXP>
MXP_CLOSE == <<60, 47, 77, 88, 80, 62>>     \* </MXP>

strip_mxp_tags(input) == Remove(Remove(input, MXP_OPEN), MXP_CLOSE)

FG256 == <<51, 56, SEMI, 53, SEMI>>         \* 38;5;
BG256 == <<52, 56, SEMI, 53, SEMI>>         \* 48;5;

NoEntry == [some |-> FALSE, col |-> White]
Entry(c) == [some |-> TRUE, col |-> c]

\* format!("{}", i) gives t: decimal, no leading zero
IsCanonicalDecimal(t) ==
    /\ Len(t) > 0
    /\ \A i \in 1..Len(t) : IsDigit(t[i])
    /\ (Len(t) > 1 => t[1] # 48)

\* COLOR_MAP.get(key): the keys "0;30".."0;37", "1;30".."1;37" and "38;5;0".."38;5;255"
ColorMapGet(key) ==
    IF Len(key) = 4 /\ key[1] \in {48, 49} /\ key[2] = SEMI /\ key[3] = 51
          /\ key[4] >= 48 /\ key[4] <= 55
    THEN Entry(Palette16[(IF key[1] = 49 THEN 8 ELSE 0) + (key[4] - 48) + 1])
    ELSE IF StartsWith(key, FG256)
    THEN LET t == SubSeq(key, Len(FG256) + 1, Len(key))
         IN IF IsCanonicalDecimal(t) /\ Len(t) <= 3 /\ DecimalValue(t) <= 255
            THEN Entry(Xterm(DecimalValue(t)))
            ELSE NoEntry
    ELSE NoEntry

\* a faulty parser: a standard background code resets the foreground
SgrApply_bg_resets_fg(code, fg, bg) ==
    IF code = <<48>> THEN [fg |-> White, bg |-> NoColor]
    ELSE IF StartsWith(code, FG256)
    THEN [fg |-> IF ColorMapGet(code).some THEN ColorMapGet(code).col ELSE fg, bg |-> bg]
    ELSE IF StartsWith(code, BG256)
    THEN LET fg_key == FG256 \o SubSeq(code, Len(BG256) + 1, Len(code))
         IN [fg |-> fg, bg |-> IF ColorMapGet(fg_key).some THEN ColorMapGet(fg_key).col ELSE bg]
    ELSE IF Len(code) = 2 /\ code[1] = 52 /\ code[2] >= 48 /\ code[2] <= 55
    THEN [fg |-> White, bg |-> Palette16[code[2] - 48 + 1]]
    ELSE IF Len(code) = 2 /\ code[1] = 57 /\ code[2] >= 48 /\ code[2] <= 55
    THEN LET key == <<49, SEMI>> \o code
         IN [fg |-> IF ColorMapGet(key).some THEN ColorMapGet(key).col ELSE fg, bg |-> bg]
    ELSE LET key == IF \E i \in 1..Len(code) : code[i] = SEMI THEN code
                    ELSE <<48, SEMI>> \o code
         IN [fg |-> IF ColorMapGet(key).some THEN ColorMapGet(key).col ELSE fg, bg |-> bg]

\* the style after the SGR sequence with parameter string code
SgrApply(code, fg, bg) ==
    IF code = <<48>> THEN [fg |-> White, bg |-> NoColor]
    ELSE IF StartsWith(code, FG256)
    THEN [fg |-> IF ColorMapGet(code).some THEN ColorMapGet(code).col ELSE fg, bg |-> bg]
    ELSE IF StartsWith(code, BG256)
    THEN LET fg_key == FG256 \o SubSeq(code, Len(BG256) + 1, Len(code))
         IN [fg |-> fg, bg |-> IF ColorMapGet(fg_key).some THEN ColorMapGet(fg_key).col ELSE bg]
    ELSE IF Len(code) = 2 /\ code[1] = 52 /\ code[2] >= 48 /\ code[2] <= 55
    THEN [fg |-> fg, bg |-> Palette16[code[2] - 48 + 1]]
    ELSE IF Len(code) = 2 /\ code[1] = 57 /\ code[2] >= 48 /\ code[2] <= 55
    THEN LET key == <<49, SEMI>> \o code
         IN [fg |-> IF ColorMapGet(key).some THEN ColorMapGet(key).col ELSE fg, bg |-> bg]
    ELSE LET key == IF \E i \in 1..Len(code) : code[i] = SEMI THEN code
                    ELSE <<48, SEMI>> \o code
         IN [fg |-> IF ColorMapGet(key).some THEN ColorMapGet(key).col ELSE fg, bg |-> bg]

\* a faulty flush: the span is given the default style
PushText_default_style(line, text, fg, bg) ==
    IF Len(text) > 0 THEN Append(line, Span(text, White, NoColor)) ELSE line

\* current_line with the pending text pushed as a span, when there is any
PushText(line, text, fg, bg) ==
    IF Len(text) > 0 THEN Append(line, Span(text, fg, bg)) ELSE line

\* the locals of parse_ansi_codes that a call ends with (current_fg,
\* current_bg, state); they go out of scope when it returns
Locals(fg, bg, state) == [fg |-> fg, bg |-> bg, state |-> state]

\* fcall: the function called last, its argument, what it returned, the
\* locals it ended with and those the call before it ended with
NoCall == [fn |-> "none", in |-> <<>>, out |-> <<>>,
           end |-> Locals(White, NoColor, "Normal"),
           before |-> Locals(White, NoColor, "Normal")]

\* a faulty parser: colours and state are kept from the call before
AnsiStart_carried ==
    [results |-> <<>>, line |-> <<>>, text |-> <<>>, fg |-> fcall.end.fg,
     bg |-> fcall.end.bg, state |-> fcall.end.state, code |-> <<>>]

\* current_fg = Color::White, current_bg = None, state = State::Normal
AnsiStart == [results |-> <<>>, line |-> <<>>, text |-> <<>>, fg |-> White,
              bg |-> NoColor, state |-> "Normal", code |-> <<>>]

\* a faulty parser: the character after an ESC that starts no CSI is dropped
EscapedStep_dropped(st, ch) ==
    IF ch = LBRACKET THEN [st EXCEPT !.state = "Parsing", !.code = <<>>]
    ELSE [st EXCEPT !.state = "Normal"]

\* State::Escaped: '[' starts the parameters, any other character goes back
\* to Normal and is pushed to the pending text
EscapedStep(st, ch) ==
    IF ch = LBRACKET THEN [st EXCEPT !.state = "Parsing", !.code = <<>>]
    ELSE [st EXCEPT !.state = "Normal", !.text = Append(st.text, ch)]

\* a faulty parser: a newline ends an unfinished SGR sequence and the line
ParsingStep_newline_ends(st, ch) ==
    IF ch = CH_m
    THEN [st EXCEPT !.state = "Normal", !.code = <<>>,
                    !.fg = SgrApply(st.code, st.fg, st.bg).fg,
                    !.bg = SgrApply(st.code, st.fg, st.bg).bg]
    ELSE IF ch = LF
    THEN [st EXCEPT !.state = "Normal", !.code = <<>>,
                    !.results = Append(st.results, st.line), !.line = <<>>]
    ELSE [st EXCEPT !.code = Append(st.code, ch)]

\* State::Parsing(code_str): 'm' ends the sequence and applies it, any other
\* character is pushed to code_str
ParsingStep(st, ch) ==
    IF ch = CH_m
    THEN [st EXCEPT !.state = "Normal", !.code = <<>>,
                    !.fg = SgrApply(st.code, st.fg, st.bg).fg,
                    !.bg = SgrApply(st.code, st.fg, st.bg).bg]
    ELSE [st EXCEPT !.code = Append(st.code, ch)]

\* one character of the loop of parse_ansi_codes
AnsiStep(st, ch) ==
    CASE st.state = "Normal" ->
           IF ch = ESC
           THEN [st EXCEPT !.state = "Escaped",
                           !.line = PushText(st.line, st.text, st.fg, st.bg),
                           !.text = <<>>]
           ELSE IF ch = LF
           THEN [st EXCEPT !.results = Append(st.results,
                                              PushText(st.line, st.text, st.fg, st.bg)),
                           !.line = <<>>, !.text = <<>>]
           ELSE IF ch # CR THEN [st EXCEPT !.text = Append(st.text, ch)]
           ELSE st
      [] st.state = "Escaped" -> EscapedStep(st, ch)
      [] OTHER -> ParsingStep(st, ch)

\* enum State { Normal, Escaped, Parsing(String) }
AnsiStates == {"Normal", "Escaped", "Parsing"}

\* the loop over input.chars(), from character i on, entered in st (st.state
\* is matched at every character, which has each state computed in turn)
RECURSIVE AnsiScan(_, _, _)
AnsiScan(input, i, st) ==
    IF i > Len(input) \/ st.state \notin AnsiStates THEN st
    ELSE AnsiScan(input, i + 1, AnsiStep(st, input[i]))

\* the locals a call of parse_ansi_codes ends with
AnsiEnd(buffer) ==
    LET st == AnsiScan(strip_mxp_tags(from_utf8_lossy(buffer)), 1, AnsiStart)
    IN Locals(st.fg, st.bg, st.state)

\* a faulty parser: text after the last newline is dropped
parse_ansi_codes_no_trailing(buffer) ==
    AnsiScan(strip_mxp_tags(from_utf8_lossy(buffer)), 1, AnsiStart).results

\* parse_ansi_codes: the lines of spans of one buffer
parse_ansi_codes(buffer) ==
    LET input == strip_mxp_tags(from_utf8_lossy(buffer))
        st == AnsiScan(input, 1, AnsiStart)
        last == PushText(st.line, st.text, st.fg, st.bg)
    IN IF Len(last) > 0 THEN Append(st.results, last) ELSE st.results

(***************************************************************************)
(* Telnet events: the decoder and the fallback scanner                     *)
(***************************************************************************)
\* TelnetEvents
Event(kind, opt, data) == [kind |-> kind, opt |-> opt, data |-> data]

\* index of the first e >= from with raw[e] = IAC and raw[e+1] = SE; 0 if none
FindIacSe(raw, from) == Find(raw, <<IAC, SE>>, from)

RECURSIVE FallbackScan(_, _, _)
FallbackScan(raw, i, events) ==
    IF i > Len(raw) THEN events
    ELSE IF raw[i] # IAC
    THEN LET next == Find(raw, <<IAC>>, i)      \* i += 1 up to the next IAC
         IN IF next = 0 THEN events ELSE FallbackScan(raw, next, events)
    ELSE IF /\ raw[i] = IAC
            /\ i + 1 <= Len(raw) /\ raw[i + 1] = SB
            /\ i + 2 <= Len(raw) /\ raw[i + 2] = TELOPT_GMCP
            /\ FindIacSe(raw, i + 3) # 0
    THEN LET end == FindIacSe(raw, i + 3)
         IN FallbackScan(raw, end + 2,
                Append(events, Event("Subnegotiation", TELOPT_GMCP,
                                     SubSeq(raw, i + 3, end - 1))))
    ELSE FallbackScan(raw, i + 1, events)

\* extract_gmcp_subnegotiations
\* a faulty scanner: it stops at the first frame it finds
extract_gmcp_subnegotiations_first(raw) ==
    IF Len(FallbackScan(raw, 1, <<>>)) > 1
    THEN <<Head(FallbackScan(raw, 1, <<>>))>> ELSE FallbackScan(raw, 1, <<>>)

extract_gmcp_subnegotiations(raw) == FallbackScan(raw, 1, <<>>)

\* The Telnet state machine of the decoder library (Parser::receive): content
\* runs, a refusal for each WILL/DO request of the server (the client enables
\* no option in the decoder), completed subnegotiations, other commands; an
\* unfinished command is kept for the next call.  gmcp: whether the decoder
\* reports subnegotiations (those of option 201 and of the other options).
NegotiationReply == (251 :> 254) @@ (253 :> 252)    \* WILL -> DONT, DO -> WONT

FlushRun(events, run) ==
    IF Len(run) > 0 THEN Append(events, Event("DataReceive", 0, run)) ELSE events

RECURSIVE Decode(_, _, _, _, _)
Decode(data, i, events, run, gmcp) ==
    IF i > Len(data) THEN [events |-> FlushRun(events, run), rest |-> <<>>]
    ELSE IF data[i] # IAC
    THEN LET next == Find(data, <<IAC>>, i)     \* the content up to the next IAC
             stop == IF next = 0 THEN Len(data) + 1 ELSE next
         IN Decode(data, stop, events, run \o SubSeq(data, i, stop - 1), gmcp)
    ELSE IF i = Len(data)
    THEN [events |-> FlushRun(events, run), rest |-> <<IAC>>]
    ELSE IF data[i + 1] = IAC THEN Decode(data, i + 2, events, Append(run, IAC), gmcp)
    ELSE IF data[i + 1] \in 251..254
    THEN IF i + 2 > Len(data)
         THEN [events |-> FlushRun(events, run), rest |-> SubSeq(data, i, Len(data))]
         ELSE Decode(data, i + 3,
                     IF data[i + 1] \in DOMAIN NegotiationReply
                     THEN Append(FlushRun(events, run),
                                 Event("DataSend", 0,
                                       <<IAC, NegotiationReply[data[i + 1]], data[i + 2]>>))
                     ELSE FlushRun(events, run),
                     <<>>, gmcp)
    ELSE IF data[i + 1] = SB
    THEN LET end == FindIacSe(data, i + 3)
         IN IF end = 0
            THEN [events |-> FlushRun(events, run), rest |-> SubSeq(data, i, Len(data))]
            ELSE Decode(data, end + 2,
                        IF gmcp
                        THEN Append(FlushRun(events, run),
                                    Event("Subnegotiation", data[i + 2],
                                          SubSeq(data, i + 3, end - 1)))
                        ELSE FlushRun(events, run),
                        <<>>, gmcp)
    ELSE Decode(data, i + 2, Append(FlushRun(events, run), Event("IAC", data[i + 1], <<>>)),
                <<>>, gmcp)

\* Parser::receive on the bytes of one read, pending holding the unfinished
\* command of the reads before
receive(pending, raw, gmcp) == Decode(pending \o raw, 1, <<>>, <<>>, gmcp)

(***************************************************************************)
(* The store on its own: any sequence of update and get calls              *)
(***************************************************************************)
StoreKeys == {<<97>>, <<98>>}          \* the segments "a" and "b"

RECURSIVE SegSeqs(_)
SegSeqs(n) ==
    IF n = 0 THEN {<<>>}
    ELSE LET shorter == SegSeqs(n - 1)
         IN shorter \cup {Append(p, k) : p \in {q \in shorter : Len(q) = n - 1},
                                          k \in StoreKeys}

\* the package paths drawn: 1..MaxDepth segments joined by '.', and the empty
\* string (one empty segment)
StorePaths == {Join(p, DOT) : p \in SegSeqs(MaxDepth) \ {<<>>}} \cup {<<>>}

StoreValues ==
    { JsonAtom("num", <<53>>), JsonObject1(<<97>>, JsonAtom("str", <<66, 111, 98>>)) }

\* lastOp: the last call made on the store.  over = the value the call before
\* it wrote at the same path, when that was a completed update, else None
NoOp == [op |-> "none", path |-> <<>>, value |-> JsonNull, ok |-> TRUE,
         result |-> None, over |-> None]

Update(p, V) ==
    LET r == update(store, p, V)
    IN /\ nOps < MaxOps
       /\ store' = r.data
       /\ lastOp' = [op |-> "update", path |-> p, value |-> V, ok |-> r.ok,
                     result |-> None,
                     over |-> IF lastOp.op = "update" /\ lastOp.ok /\ lastOp.path = p
                              THEN Some(lastOp.value) ELSE None]
       /\ nOps' = nOps + 1
       /\ UNCHANGED <<fcall, uiVars, lockVars, netVars, writeVars, taskVars, readVars, chanVars>>

Get(p) ==
    /\ nOps < MaxOps
    /\ lastOp' = [op |-> "get", path |-> p, value |-> JsonNull, ok |-> TRUE,
                  result |-> get(store, p), over |-> None]
    /\ nOps' = nOps + 1
    /\ UNCHANGED <<store, fcall, uiVars, lockVars, netVars, writeVars, taskVars, readVars, chanVars>>

StoreUpdate == \E p \in StorePaths, V \in StoreValues : Update(p, V)
StoreGet == \E p \in StorePaths : Get(p)

NextStore == StoreUpdate \/ StoreGet

(***************************************************************************)
(* The session: server, connect, send_command, the read task, the consumer *)
(***************************************************************************)
BufSize == 8192
\* mpsc::channel(100)
ChannelCapacity == 100

Frame(payload) == <<IAC, SB, TELOPT_GMCP>> \o payload \o <<IAC, SE>>

LoginPayload == <<W.char, DOT, W.login, SPACE, J.bob>>      \* char.login {"name":"Bob"}
ColoredText == <<ESC, LBRACKET, 51, 49, CH_m, 88, LF>>      \* ESC[31mX\n

\* the byte streams a server sends
LoginStream == Frame(LoginPayload) \o ColoredText
ShadowStream == Frame(<<W.char, SPACE, J.five>>) \o Frame(LoginPayload)
MalformedStream ==
    Frame(<<W.char, DOT, W.login, SPACE, J.bad>>)           \* no JSON
      \o Frame(<<W.char, DOT, W.login, SPACE, J.nameFive>>) \* not a CharLogin
      \o <<88, LF>> \o <<IAC, SB, TELOPT_GMCP, W.char>>     \* frame never ended
NegotiationStream == <<IAC, 253, 1, 88, LF, IAC, 249>>      \* IAC DO 1, X\n, IAC GA
RequestStream == <<IAC, 253, 1>>                            \* IAC DO 1
SilentStream == <<>>                                           \* nothing is sent
FloodStream == [i \in 1..ChannelCapacity |-> LF]
\* a subnegotiation of option 24 (terminal type) carrying `char 5`, then
\* char.login {"name":"Bob"}, then char.login {"name":5}, then char 5
OverwriteStream ==
    <<IAC, SB, 24, W.char, SPACE, J.five, IAC, SE>>
      \o Frame(LoginPayload) \o Frame(<<W.char, DOT, W.login, SPACE, J.nameFive>>)
      \o Frame(<<W.char, SPACE, J.five>>)

\* two lines of text: comm.channel {"chan":"hi","msg":"hi","player":"hi"}
\* and comm.channel {"name":"Bob"}
ChatStream ==
    <<W.comm, DOT, W.channel, SPACE, J.chat, LF, W.comm, DOT, W.channel, SPACE, J.bob, LF>>

\* the texts the user enters as commands: ` look `, `look\r\n`, the empty
\* text, and `\tlook hi\n`
CommandTexts ==
    { <<SPACE, W.look, SPACE>>, <<W.look, CR, LF>>, <<>>,
      <<TAB, W.look, SPACE, W.hi, LF>> }

\* a run: the stream, how the connection ends, the send_command calls made
\* and the text they send, and whether the decoder reports GMCP
\* subnegotiations
Scenarios ==
    [stream : {LoginStream, ShadowStream, MalformedStream}, ending : {"eof", "err"},
     commands : {0}, text : {<<>>}, gmcp : BOOLEAN]
      \cup [stream : {NegotiationStream}, ending : {"eof"}, commands : {0},
            text : {<<>>}, gmcp : {FALSE}]
      \cup [stream : {RequestStream}, ending : {"eof"}, commands : {1},
            text : {<<SPACE, W.look, SPACE>>}, gmcp : {FALSE}]
      \cup [stream : {SilentStream}, ending : {"eof"}, commands : {1},
            text : CommandTexts, gmcp : {FALSE}]
      \cup [stream : {SilentStream}, ending : {"eof"}, commands : 2..MaxCommands,
            text : {<<>>}, gmcp : {FALSE}]
      \cup [stream : {FloodStream, ChatStream}, ending : {"eof"}, commands : {0},
            text : {<<>>}, gmcp : {FALSE}]
      \cup [stream : {OverwriteStream}, ending : {"eof"}, commands : {0},
            text : {<<>>}, gmcp : BOOLEAN]

NoHolder == <<"none", 0>>
ConnectTask == <<"connect", 0>>
ReadTask == <<"reader", 0>>
CmdTask(i) == <<"cmd", i>>

\* the text the user enters for command i
CommandText(i) == scenario.text
\* a faulty command: the text is sent as entered
CommandBytes_untrimmed(text) == text \o <<CR, LF>>
\* format!("{}\r\n", cmd.trim())
CommandBytes(text) == Trim(text) \o <<CR, LF>>

\* a faulty handshake: the requests are sent before GMCP is enabled
Handshake_requests_first ==
    << Frame(<<W.config, SPACE, W.compact>>),
       <<IAC, WILL, TELOPT_GMCP>>,
       Frame(<<W.config, SPACE, W.prompt>>),
       Frame(<<W.config, SPACE, W.xterm, SPACE, W.yes>>),
       Frame(<<W.request, SPACE, W.char>>),
       Frame(<<W.request, SPACE, W.room>>),
       Frame(<<W.request, SPACE, W.area>>),
       Frame(<<W.request, SPACE, W.quest>>),
       Frame(<<W.request, SPACE, W.group>>) >>

\* the writes of connect: enable_gmcp, then fetch_all
Handshake ==
    << <<IAC, WILL, TELOPT_GMCP>>,
       Frame(<<W.config, SPACE, W.compact>>),
       Frame(<<W.config, SPACE, W.prompt>>),
       Frame(<<W.config, SPACE, W.xterm, SPACE, W.yes>>),
       Frame(<<W.request, SPACE, W.char>>),
       Frame(<<W.request, SPACE, W.room>>),
       Frame(<<W.request, SPACE, W.area>>),
       Frame(<<W.request, SPACE, W.quest>>),
       Frame(<<W.request, SPACE, W.group>>) >>

IdleCmd == [pc |-> "idle", result |-> "none"]

(***************************************************************************)
(* The user interface: AppState (src/src/main.rs)                          *)
(***************************************************************************)
\* Option<usize>
NoIndex == [some |-> FALSE, val |-> 0]
SomeIndex(i) == [some |-> TRUE, val |-> i]

\* the scrollback limits of add_mud_output and add_chat_output
MudLimit == 2000
ChatLimit == 1000

\* `as u16`
AsU16(n) == n % 65536

\* usize::saturating_sub
saturating_sub(a, b) == IF a >= b THEN a - b ELSE 0

\* AppState::new; a line is modelled by its number in the order of arrival
AppState_new ==
    [mud_output |-> <<>>, chat_output |-> <<>>, input |-> <<>>, scroll_offset |-> 0,
     chat_scroll_offset |-> 0, command_history |-> <<>>, history_index |-> NoIndex]

\* a call that returned
Done(st) == [ok |-> TRUE, st |-> st]
\* a call that panicked: an index out of the bounds of command_history
Panicked(st) == [ok |-> FALSE, st |-> st]

add_mud_output(st, line) ==
    LET kept == IF Len(st.mud_output) > MudLimit THEN Tail(st.mud_output)
                ELSE st.mud_output
    IN [st EXCEPT !.mud_output = Append(kept, line)]

add_chat_output(st, line) ==
    LET kept == IF Len(st.chat_output) > ChatLimit THEN Tail(st.chat_output)
                ELSE st.chat_output
    IN [st EXCEPT !.chat_output = Append(kept, line)]

scroll_up_main(st) ==
    IF st.scroll_offset > 0 THEN [st EXCEPT !.scroll_offset = @ - 1] ELSE st

scroll_down_main(st) ==
    IF st.scroll_offset < AsU16(Len(st.mud_output))
    THEN [st EXCEPT !.scroll_offset = AsU16(@ + 1)] ELSE st

scroll_up_chat(st) ==
    IF st.chat_scroll_offset > 0 THEN [st EXCEPT !.chat_scroll_offset = @ - 1] ELSE st

scroll_down_chat(st) ==
    IF st.chat_scroll_offset < AsU16(Len(st.chat_output))
    THEN [st EXCEPT !.chat_scroll_offset = AsU16(@ + 1)] ELSE st

add_to_history(st, cmd) ==
    [st EXCEPT !.command_history = IF Trim(cmd) # <<>> THEN Append(@, cmd) ELSE @,
               !.history_index = NoIndex]

\* self.input = self.command_history[i].clone()
RecallAt(st, i) ==
    IF i < Len(st.command_history)
    THEN Done([st EXCEPT !.input = st.command_history[i + 1]])
    ELSE Panicked(st)

history_up(st) ==
    IF Len(st.command_history) = 0 THEN Done(st)
    ELSE LET index == IF ~st.history_index.some
                      THEN SomeIndex(saturating_sub(Len(st.command_history), 1))
                      ELSE IF st.history_index.val = 0 THEN st.history_index
                      ELSE SomeIndex(saturating_sub(st.history_index.val, 1))
         IN RecallAt([st EXCEPT !.history_index = index], index.val)

\* a faulty history_down: the last entry is not taken for the end
history_down_past_end(st) ==
    IF Len(st.command_history) = 0 THEN Done(st)
    ELSE IF ~st.history_index.some THEN Done(st)
    ELSE IF st.history_index.val > Len(st.command_history) - 1
    THEN Done([st EXCEPT !.history_index = NoIndex, !.input = <<>>])
    ELSE RecallAt([st EXCEPT !.history_index = SomeIndex(st.history_index.val + 1)],
                  st.history_index.val + 1)

history_down(st) ==
    IF Len(st.command_history) = 0 THEN Done(st)
    ELSE IF ~st.history_index.some THEN Done(st)
    ELSE IF st.history_index.val >= Len(st.command_history) - 1
    THEN Done([st EXCEPT !.history_index = NoIndex, !.input = <<>>])
    ELSE RecallAt([st EXCEPT !.history_index = SomeIndex(st.history_index.val + 1)],
                  st.history_index.val + 1)

\* k calls of add_mud_output in a row, for the lines numbered from first on:
\* the first half of the calls, then the rest (the test of the length has
\* TLC evaluate the state reached before it goes on)
RECURSIVE MudOutputTimes(_, _, _)
MudOutputTimes(st, first, k) ==
    IF k = 0 \/ Len(st.mud_output) < 0 THEN st
    ELSE IF k = 1 THEN add_mud_output(st, first)
    ELSE MudOutputTimes(MudOutputTimes(st, first, k \div 2), first + (k \div 2),
                        k - (k \div 2))

RECURSIVE ChatOutputTimes(_, _, _)
ChatOutputTimes(st, first, k) ==
    IF k = 0 \/ Len(st.chat_output) < 0 THEN st
    ELSE IF k = 1 THEN add_chat_output(st, first)
    ELSE ChatOutputTimes(ChatOutputTimes(st, first, k \div 2), first + (k \div 2),
                         k - (k \div 2))

\* uiLog: calls made, lines given to each scrollback, and the last call
NoUiCall == [nOps |-> 0, mudLines |-> 0, chatLines |-> 0, ok |-> TRUE, op |-> "none"]

InitUi == app = AppState_new /\ uiLog = NoUiCall

\* the commands entered: a blank one, look, hi
UiCommands == {<<SPACE>>, <<W.look>>, <<W.hi>>}
\* the lines that arrive between two other calls: one, or a burst
Bursts == {1, BurstLen}

UiCall(op, r, mud, chat) ==
    /\ app' = r.st
    /\ uiLog' = [nOps |-> uiLog.nOps + 1, mudLines |-> uiLog.mudLines + mud,
                 chatLines |-> uiLog.chatLines + chat, ok |-> r.ok, op |-> op]
    /\ UNCHANGED <<store, storeVars, fcall, lockVars, netVars, writeVars, taskVars,
                   readVars, chanVars>>

UiReady == uiLog.ok /\ uiLog.nOps < MaxUiOps

AddMudOutput ==
    /\ UiReady
    /\ \E k \in Bursts :
          UiCall("add_mud_output", Done(MudOutputTimes(app, uiLog.mudLines + 1, k)), k, 0)

AddChatOutput ==
    /\ UiReady
    /\ \E k \in Bursts :
          UiCall("add_chat_output", Done(ChatOutputTimes(app, uiLog.chatLines + 1, k)), 0, k)

ScrollUpMain == UiReady /\ UiCall("scroll_up_main", Done(scroll_up_main(app)), 0, 0)
ScrollDownMain == UiReady /\ UiCall("scroll_down_main", Done(scroll_down_main(app)), 0, 0)
ScrollUpChat == UiReady /\ UiCall("scroll_up_chat", Done(scroll_up_chat(app)), 0, 0)
ScrollDownChat == UiReady /\ UiCall("scroll_down_chat", Done(scroll_down_chat(app)), 0, 0)

AddToHistory ==
    /\ UiReady
    /\ \E cmd \in UiCommands : UiCall("add_to_history", Done(add_to_history(app, cmd)), 0, 0)

HistoryUp == UiReady /\ UiCall("history_up", history_up(app), 0, 0)
HistoryDown == UiReady /\ UiCall("history_down", history_down(app), 0, 0)

NextUi ==
    \/ AddMudOutput \/ AddChatOutput
    \/ ScrollUpMain \/ ScrollDownMain \/ ScrollUpChat \/ ScrollDownChat
    \/ AddToHistory \/ HistoryUp \/ HistoryDown

InitSession ==
    /\ InitUi
    /\ scenario \in Scenarios
    /\ unsent = scenario.stream
    /\ segsLeft = MaxSegments
    /\ rcvbuf = <<>>
    /\ closed = FALSE
    /\ writeHalf = FALSE
    /\ wlock = NoHolder
    /\ wbytes = <<>>
    /\ wire = <<>>
    /\ wlog = <<>>
    /\ sockBroken = FALSE
    /\ connPc = "start"
    /\ hsDone = 0
    /\ cmds = [i \in 1..MaxCommands |-> IdleCmd]
    /\ pc = "unspawned"
    /\ parserBuf = <<>>
    /\ parserGmcp = scenario.gmcp
    /\ evq = <<>>
    /\ outq = <<>>
    /\ chan = <<>>
    /\ rxOpen = TRUE
    /\ sendLog = <<>>
    /\ readLog = <<>>
    /\ lastRead = "none"
    /\ nReads = 0
    /\ nHandled = 0
    /\ sendFailed = FALSE
    /\ plock = NoHolder
    /\ slock = NoHolder
    /\ raw_bytes = <<>>

Init ==
    /\ InitSession
    /\ store = GMCPStore_new
    /\ lastOp = NoOp
    /\ nOps = 0
    /\ fcall = NoCall

\* the store specification leaves the session as one of its initial states
InitStore ==
    /\ store = GMCPStore_new
    /\ lastOp = NoOp
    /\ nOps = 0
    /\ InitSession
    /\ scenario = [stream |-> FloodStream, ending |-> "eof", commands |-> 0,
                   text |-> <<>>, gmcp |-> FALSE]
    /\ fcall = NoCall

SpecStore == InitStore /\ [][NextStore]_vars

\* the interface specification: any sequence of calls on the AppState
SpecUi == InitStore /\ [][NextUi]_vars

\* ---- the server and the connection ----
\* The server sends the next bytes of its stream: any cut of a short stream
\* into at most MaxSegments segments, a long stream whole.  Bytes that arrive
\* before the read loop runs wait in the socket and are read with the later
\* ones, so segments are drawn from the point the loop is spawned.
ServerSend ==
    /\ pc # "unspawned"
    /\ ~closed
    /\ Len(unsent) > 0
    /\ \E k \in (IF Len(unsent) <= MaxSplitLen /\ segsLeft > 1
                 THEN 1..Len(unsent) ELSE {Len(unsent)}) :
          /\ rcvbuf' = rcvbuf \o SubSeq(unsent, 1, k)
          /\ unsent' = SubSeq(unsent, k + 1, Len(unsent))
    /\ segsLeft' = segsLeft - 1
    /\ UNCHANGED <<store, storeVars, fcall, uiVars, lockVars, scenario, closed, writeVars, taskVars, readVars, chanVars>>

\* the server closes the socket, or the connection fails, after its last byte
ServerClose ==
    /\ pc # "unspawned"
    /\ ~closed
    /\ Len(unsent) = 0
    /\ closed' = TRUE
    /\ UNCHANGED <<store, storeVars, fcall, uiVars, lockVars, scenario, unsent, segsLeft, rcvbuf, writeVars,
                   taskVars, readVars, chanVars>>

\* ---- write_all under the write_half mutex ----
\* the lock holder's write_all ends having written `written` bytes; the guard
\* is dropped when the call returns
WriteAllEnds(written, broken) ==
    /\ wire' = wire \o SubSeq(wbytes, 1, written)
    /\ wlog' = Append(wlog, [who |-> wlock, bytes |-> wbytes, written |-> written])
    /\ wlock' = NoHolder
    /\ wbytes' = <<>>
    /\ sockBroken' = (sockBroken \/ broken)
    /\ UNCHANGED writeHalf

\* the byte counts a write_all that does not complete may have written
PartialCounts == IF sockBroken THEN {0} ELSE 0..(Len(wbytes) - 1)

AcquireWrite(who, bytes) ==
    /\ wlock = NoHolder
    /\ wlock' = who
    /\ wbytes' = bytes
    /\ UNCHANGED <<writeHalf, wire, wlog, sockBroken>>

\* ---- TelnetClient::connect ----
ConnectFail ==
    /\ connPc = "start"
    /\ connPc' = "failed"
    /\ UNCHANGED <<store, storeVars, fcall, uiVars, lockVars, netVars, writeVars, hsDone, cmds, readVars, chanVars>>

\* *w = Some(write_half)
ConnectOk ==
    /\ connPc = "start"
    /\ wlock = NoHolder
    /\ writeHalf' = TRUE
    /\ connPc' = "handshake"
    /\ UNCHANGED <<store, storeVars, fcall, uiVars, lockVars, netVars, wlock, wbytes, wire, wlog, sockBroken,
                   hsDone, cmds, readVars, chanVars>>

\* enable_gmcp and send_gmcp_subneg: self.write_half.lock().await
HandshakeLock ==
    /\ connPc = "handshake"
    /\ hsDone < Len(Handshake)
    /\ AcquireWrite(ConnectTask, Handshake[hsDone + 1])
    /\ UNCHANGED <<store, storeVars, fcall, uiVars, lockVars, netVars, taskVars, readVars, chanVars>>

HandshakeWriteOk ==
    /\ wlock = ConnectTask
    /\ ~sockBroken
    /\ WriteAllEnds(Len(wbytes), FALSE)
    /\ hsDone' = hsDone + 1
    /\ UNCHANGED <<store, storeVars, fcall, uiVars, lockVars, netVars, connPc, cmds, readVars, chanVars>>

\* write_all(..).await.map_err(..)?  -- connect returns the error
HandshakeWriteErr ==
    /\ wlock = ConnectTask
    /\ \E k \in PartialCounts : WriteAllEnds(k, TRUE)
    /\ connPc' = "failed"
    /\ UNCHANGED <<store, storeVars, fcall, uiVars, lockVars, netVars, hsDone, cmds, readVars, chanVars>>

\* tokio::spawn(run_read_loop(..)); Ok(())
SpawnReadLoop ==
    /\ connPc = "handshake"
    /\ hsDone = Len(Handshake)
    /\ connPc' = "returned"
    /\ pc' = "read"
    /\ UNCHANGED <<store, storeVars, fcall, uiVars, lockVars, netVars, writeVars, hsDone, cmds, parserBuf, parserGmcp,
                   evq, outq, sendLog, readLog, lastRead, nReads, nHandled, sendFailed,
                   chanVars>>

\* ---- TelnetClient::send_command ----
CmdEnds(i, result) == cmds' = [cmds EXCEPT ![i] = [pc |-> "done", result |-> result]]

\* self.write_half.lock().await, then the match on w.as_mut(); the calls are
\* numbered in the order in which they are granted the lock
CmdLock(i) ==
    /\ i <= scenario.commands
    /\ cmds[i].pc = "idle"
    /\ \A j \in 1..(i - 1) : cmds[j].pc # "idle"
    /\ wlock = NoHolder
    /\ IF writeHalf
       THEN /\ AcquireWrite(CmdTask(i), CommandBytes(CommandText(i)))
            /\ cmds' = [cmds EXCEPT ![i].pc = "writing"]
       ELSE /\ CmdEnds(i, "Not connected")
            /\ UNCHANGED writeVars
    /\ UNCHANGED <<store, storeVars, fcall, uiVars, lockVars, netVars, connPc, hsDone, readVars, chanVars>>

CmdWriteOk(i) ==
    /\ wlock = CmdTask(i)
    /\ ~sockBroken
    /\ WriteAllEnds(Len(wbytes), FALSE)
    /\ CmdEnds(i, "Ok")
    /\ UNCHANGED <<store, storeVars, fcall, uiVars, lockVars, netVars, connPc, hsDone, readVars, chanVars>>

CmdWriteErr(i) ==
    /\ wlock = CmdTask(i)
    /\ \E k \in PartialCounts : WriteAllEnds(k, TRUE)
    /\ CmdEnds(i, "Write error")
    /\ UNCHANGED <<store, storeVars, fcall, uiVars, lockVars, netVars, connPc, hsDone, readVars, chanVars>>

\* a faulty timeout: it ends the session's read loop as well
CmdTimeout_fatal(i) ==
    /\ wlock = CmdTask(i)
    /\ ~sockBroken
    /\ \E k \in PartialCounts : WriteAllEnds(k, FALSE)
    /\ CmdEnds(i, "Write timed out")
    /\ pc' = IF pc = "read" THEN "done" ELSE pc
    /\ UNCHANGED <<store, storeVars, fcall, uiVars, lockVars, netVars, connPc, hsDone, parserBuf, parserGmcp, evq,
                   outq, sendLog, readLog, lastRead, nReads, nHandled, sendFailed, chanVars>>

\* timeout(Duration::from_secs(5), ..) elapses: the write_all future is dropped
\* with the bytes it has written so far on the wire
CmdTimeout(i) ==
    /\ wlock = CmdTask(i)
    /\ ~sockBroken
    /\ \E k \in PartialCounts : WriteAllEnds(k, FALSE)
    /\ CmdEnds(i, "Write timed out")
    /\ UNCHANGED <<store, storeVars, fcall, uiVars, lockVars, netVars, connPc, hsDone, readVars, chanVars>>

SendCommandLock == \E i \in 1..MaxCommands : CmdLock(i)
SendCommandOk == \E i \in 1..MaxCommands : CmdWriteOk(i)
SendCommandErr == \E i \in 1..MaxCommands : CmdWriteErr(i)
SendCommandTimeout == \E i \in 1..MaxCommands : CmdTimeout(i)

\* ---- the read task: run_read_loop and handle_event ----
\* str::to_lowercase on the ASCII letters
ToLower(s) == [i \in 1..Len(s) |-> IF s[i] \in 65..90 THEN s[i] + 32 ELSE s[i]]

\* line.iter().map(|span| span.content.clone()).collect()
RECURSIVE FullText(_)
FullText(line) == IF Len(line) = 0 THEN <<>> ELSE Head(line).content \o FullText(Tail(line))

\* full_text.find('{'): 0 if none
RECURSIVE FindBrace(_, _)
FindBrace(s, i) ==
    IF i > Len(s) THEN 0
    ELSE IF s[i] = LBRACE \/ s[i] \in BraceTexts THEN i
    ELSE FindBrace(s, i + 1)

Green == <<"Green", 0, 0, 0>>

\* the message handle_event sends for one line of a DataReceive event
LineMessage(line) ==
    LET full_text == FullText(line)
        json_start == FindBrace(full_text, 1)
        cc == IF json_start = 0 THEN Err
              ELSE from_str(SubSeq(full_text, json_start, Len(full_text)))
    IN IF /\ Find(ToLower(full_text), <<W.comm, DOT, W.channel>>, 1) # 0
          /\ json_start # 0
          /\ cc.ok
          /\ Deserializes(cc.val, CommChannel)
       THEN Message("ChatMessage", <<>>,
                <<Span(<<LBRACKET>> \o Field(cc.val, W.chan) \o <<93, SPACE>>
                          \o Field(cc.val, W.player) \o <<58, SPACE>>, Green, NoColor)>>
                  \o parse_gmcp_message(Field(cc.val, W.msg)))
       ELSE Message("MUDOutput", <<>>, line)

\* a faulty loop: no `continue` after the ChatMessage, the line is sent too
RECURSIVE LineMessages_no_continue(_)
LineMessages_no_continue(lines) ==
    IF Len(lines) = 0 THEN <<>>
    ELSE (IF LineMessage(Head(lines)).type = "ChatMessage"
          THEN <<LineMessage(Head(lines)), Message("MUDOutput", <<>>, Head(lines))>>
          ELSE <<LineMessage(Head(lines))>>) \o LineMessages_no_continue(Tail(lines))

\* for line in lines { .. }: the messages sent for the lines of one event
LineMessages(lines) == [i \in 1..Len(lines) |-> LineMessage(lines[i])]

\* the message sent for a GMCP payload: none unless parse_gmcp gives a
\* package and parse_known_gmcp_modules a message
GmcpMessages(g, m) == IF g.some /\ m.some THEN <<m.msg>> ELSE <<>>

GmcpStringMessages(gmcp_str) ==
    GmcpMessages(parse_gmcp(gmcp_str), parse_known_gmcp_modules(gmcp_str))

\* the messages handle_event sends for one event, in the order it sends them
EventMessages(ev) ==
    CASE ev.kind = "DataReceive" -> LineMessages(parse_ansi_codes(ev.data))
      [] ev.kind = "Subnegotiation" /\ ev.opt = TELOPT_GMCP ->
            GmcpStringMessages(from_utf8_lossy(ev.data))
      [] OTHER -> <<>>

\* a faulty merge: the fallback scanner's events put first
ReadEvents_fallback_first(primary, fallback) == fallback \o primary
\* events.extend(fallback_events)
ReadEvents(primary, fallback) == primary \o fallback

\* where the loop goes on: the next message of the event, the next event of
\* the read, the next read
Continue(msgs, events) ==
    IF Len(msgs) > 0 THEN "send" ELSE IF Len(events) > 0 THEN "handle" ELSE "read"

\* a faulty loop: no break after the Disconnect
AfterSend_no_break(ok, msgs, events) ==
    IF lastRead \in {"eof", "err"} THEN "read" ELSE Continue(msgs, events)
\* after tx.send(..).await has returned ok (or an error, which `let _ =`
\* discards): break after the Disconnect, else go on
AfterSend(ok, msgs, events) ==
    IF lastRead \in {"eof", "err"} THEN "done" ELSE Continue(msgs, events)

\* a faulty channel: unbounded
HasPermit_unbounded(queue) == TRUE
\* a bounded channel takes a message when it holds fewer than its capacity
HasPermit(queue) == Len(queue) < ChannelCapacity

\* r.read(&mut buf).await returns Ok(n), n > 0: raw_bytes = buf[..n].to_vec()
ReadData ==
    /\ pc = "read"
    /\ Len(rcvbuf) > 0
    /\ LET n == Min(Len(rcvbuf), BufSize)
       IN /\ raw_bytes' = SubSeq(rcvbuf, 1, n)
          /\ rcvbuf' = SubSeq(rcvbuf, n + 1, Len(rcvbuf))
    /\ pc' = "lock_parser"
    /\ lastRead' = "data"
    /\ nReads' = nReads + 1
    /\ UNCHANGED <<store, storeVars, fcall, uiVars, plock, slock, scenario, unsent, segsLeft, closed,
                   writeVars, taskVars, parserBuf, parserGmcp, evq, outq, sendLog, readLog,
                   nHandled, sendFailed, chanVars>>

\* parser_arc.lock().await returns the guard p
LockParser ==
    /\ pc = "lock_parser"
    /\ plock = NoHolder
    /\ plock' = ReadTask
    /\ pc' = "receive"
    /\ UNCHANGED <<store, storeVars, fcall, uiVars, slock, raw_bytes, netVars, writeVars, taskVars,
                   parserBuf, parserGmcp, evq, outq, sendLog, readLog, lastRead, nReads,
                   nHandled, sendFailed, chanVars>>

\* the block around p.receive(&raw_bytes) ends: the guard p is dropped
ParserGuardDropped == NoHolder

\* p.receive(&raw_bytes) under the parser lock, the end of the block, and the
\* fallback scan of the same bytes
ParserReceive ==
    /\ pc = "receive"
    /\ LET parsed == receive(parserBuf, raw_bytes, parserGmcp)
           fallback_events == extract_gmcp_subnegotiations(raw_bytes)
           events == ReadEvents(parsed.events, fallback_events)
       IN /\ parserBuf' = parsed.rest
          /\ evq' = events
          /\ readLog' = Append(readLog, [raw |-> raw_bytes, primary |-> parsed.events,
                                         fallback |-> fallback_events])
          /\ pc' = Continue(<<>>, events)
    /\ plock' = ParserGuardDropped
    /\ raw_bytes' = <<>>
    /\ UNCHANGED <<store, storeVars, fcall, uiVars, slock, netVars, writeVars, taskVars, parserGmcp,
                   outq, sendLog, lastRead, nReads, nHandled, sendFailed, chanVars>>

\* r.read returns Ok(0) or Err(e): the Disconnect is to be sent
ReadEnd ==
    /\ pc = "read"
    /\ Len(rcvbuf) = 0
    /\ closed
    /\ lastRead' = scenario.ending
    /\ outq' = <<Disconnect>>
    /\ pc' = "send"
    /\ nReads' = nReads + 1
    /\ UNCHANGED <<store, storeVars, fcall, uiVars, lockVars, netVars, writeVars, taskVars, parserBuf, parserGmcp,
                   evq, sendLog, readLog, nHandled, sendFailed, chanVars>>

\* handle_event, TelnetEvents::DataReceive
HandleDataReceive ==
    /\ pc = "handle"
    /\ Head(evq).kind = "DataReceive"
    /\ outq' = EventMessages(Head(evq))
    /\ evq' = Tail(evq)
    /\ pc' = Continue(outq', evq')
    /\ nHandled' = nHandled + 1
    /\ UNCHANGED <<store, storeVars, fcall, uiVars, lockVars, netVars, writeVars, taskVars, parserBuf, parserGmcp,
                   sendLog, readLog, lastRead, nReads, sendFailed, chanVars>>

\* a faulty handler: the typed event is sent and the store is left as it was
StoreParsed_skipped(data, g) == [ok |-> TRUE, data |-> data]

\* handle_event, TelnetEvents::Subnegotiation: store.update, then the typed
\* message; the expect() of update failing ends the task by panic
StoreParsed(data, g) ==
    IF g.some THEN update(data, g.package, g.value) ELSE [ok |-> TRUE, data |-> data]

\* a faulty handler: the payload of a subnegotiation of any option is stored
StoreEvent_any_option(data, ev) == StoreParsed(data, parse_gmcp(from_utf8_lossy(ev.data)))

\* store.update(&package, value.clone()) for the payload of an event, when it
\* is a GMCP subnegotiation that parse_gmcp can split
StoreEvent(data, ev) ==
    IF ev.opt = TELOPT_GMCP THEN StoreParsed(data, parse_gmcp(from_utf8_lossy(ev.data)))
    ELSE [ok |-> TRUE, data |-> data]

SubnegotiationHandled(r, msgs) ==
    IF ~r.ok
    THEN /\ pc' = "panicked"
         /\ UNCHANGED <<store, evq, outq>>
    ELSE /\ store' = r.data
         /\ outq' = msgs
         /\ evq' = Tail(evq)
         /\ pc' = Continue(msgs, Tail(evq))

\* the event at the head of the read's events takes the store lock: a GMCP
\* subnegotiation whose payload parse_gmcp splits
LocksStore(ev) ==
    /\ ev.kind = "Subnegotiation"
    /\ ev.opt = TELOPT_GMCP
    /\ parse_gmcp(from_utf8_lossy(ev.data)).some

\* handle_event, TelnetEvents::Subnegotiation, the arms that take no lock: a
\* subnegotiation of another option, a payload that does not parse
HandleSubnegotiation ==
    /\ pc = "handle"
    /\ Head(evq).kind = "Subnegotiation"
    /\ ~LocksStore(Head(evq))
    /\ SubnegotiationHandled(StoreEvent(store, Head(evq)), EventMessages(Head(evq)))
    /\ nHandled' = nHandled + 1
    /\ UNCHANGED <<storeVars, fcall, uiVars, lockVars, netVars, writeVars, taskVars, parserBuf, parserGmcp,
                   sendLog, readLog, lastRead, nReads, sendFailed, chanVars>>

\* gmcp_store.lock().await returns the guard store
LockStore ==
    /\ pc = "handle"
    /\ LocksStore(Head(evq))
    /\ slock = NoHolder
    /\ slock' = ReadTask
    /\ pc' = "update"
    /\ UNCHANGED <<store, storeVars, fcall, uiVars, plock, raw_bytes, netVars, writeVars, taskVars,
                   parserBuf, parserGmcp, evq, outq, sendLog, readLog, lastRead, nReads,
                   nHandled, sendFailed, chanVars>>

\* a faulty block: the guard store lives to the end of handle_event
StoreGuardDropped_at_return == ReadTask
\* the block around store.update ends, or the panic unwinds through it: the
\* guard store is dropped
StoreGuardDropped == NoHolder

\* store.update(&package, value.clone()) under the store lock, the end of
\* the block, and the typed message to send
UpdateStore ==
    /\ pc = "update"
    /\ SubnegotiationHandled(StoreEvent(store, Head(evq)), EventMessages(Head(evq)))
    /\ slock' = StoreGuardDropped
    /\ nHandled' = nHandled + 1
    /\ UNCHANGED <<storeVars, fcall, uiVars, plock, raw_bytes, netVars, writeVars, taskVars, parserBuf,
                   parserGmcp, sendLog, readLog, lastRead, nReads, sendFailed, chanVars>>

\* handle_event, TelnetEvents::DataSend: write_half_arc.lock().await
HandleDataSend ==
    /\ pc = "handle"
    /\ Head(evq).kind = "DataSend"
    /\ wlock = NoHolder
    /\ IF writeHalf
       THEN /\ AcquireWrite(ReadTask, Head(evq).data)
            /\ pc' = "nego_write"
            /\ UNCHANGED evq
       ELSE /\ evq' = Tail(evq)
            /\ pc' = Continue(<<>>, evq')
            /\ UNCHANGED writeVars
    /\ nHandled' = nHandled + 1
    /\ UNCHANGED <<store, storeVars, fcall, uiVars, lockVars, netVars, taskVars, parserBuf, parserGmcp, outq,
                   sendLog, readLog, lastRead, nReads, sendFailed, chanVars>>

\* owned_wh.write_all(&data_vec).await: an error is logged, the loop goes on
NegotiationWritten ==
    /\ pc = "nego_write"
    /\ \/ ~sockBroken /\ WriteAllEnds(Len(wbytes), FALSE)
       \/ \E k \in PartialCounts : WriteAllEnds(k, TRUE)
    /\ evq' = Tail(evq)
    /\ pc' = Continue(<<>>, evq')
    /\ UNCHANGED <<store, storeVars, fcall, uiVars, lockVars, netVars, taskVars, parserBuf, parserGmcp, outq,
                   sendLog, readLog, lastRead, nReads, nHandled, sendFailed, chanVars>>

\* handle_event, TelnetEvents::IAC and the other events: nothing is done
HandleOther ==
    /\ pc = "handle"
    /\ Head(evq).kind \notin {"DataReceive", "Subnegotiation", "DataSend"}
    /\ evq' = Tail(evq)
    /\ pc' = Continue(<<>>, evq')
    /\ nHandled' = nHandled + 1
    /\ UNCHANGED <<store, storeVars, fcall, uiVars, lockVars, netVars, writeVars, taskVars, parserBuf, parserGmcp,
                   outq, sendLog, readLog, lastRead, nReads, sendFailed, chanVars>>

\* let _ = tx.send(msg).await: the message is queued when the channel has room,
\* the call waits while the channel is full, and returns an error, which is
\* discarded, when the receiver is gone
SendReturns(ok) ==
    /\ sendLog' = Append(sendLog, [msg |-> Head(outq), ok |-> ok])
    /\ outq' = Tail(outq)
    /\ pc' = AfterSend(ok, outq', evq)
    /\ sendFailed' = (sendFailed \/ ~ok)
    /\ UNCHANGED <<store, storeVars, fcall, uiVars, lockVars, netVars, writeVars, taskVars, parserBuf, parserGmcp,
                   evq, readLog, lastRead, nReads, nHandled>>

SendOk ==
    /\ pc = "send"
    /\ rxOpen
    /\ HasPermit(chan)
    /\ chan' = Append(chan, Head(outq))
    /\ UNCHANGED rxOpen
    /\ SendReturns(TRUE)

SendFails ==
    /\ pc = "send"
    /\ ~rxOpen
    /\ UNCHANGED chanVars
    /\ SendReturns(FALSE)

\* ---- the consumer (src/src/main.rs) ----
\* rx.recv().await returns a message; the Disconnect ends the task, which
\* drops the receiver
Recv ==
    /\ rxOpen
    /\ Len(chan) > 0
    /\ IF Head(chan) = Disconnect
       THEN rxOpen' = FALSE /\ chan' = <<>>
       ELSE chan' = Tail(chan) /\ UNCHANGED rxOpen
    /\ UNCHANGED <<store, storeVars, fcall, uiVars, lockVars, netVars, writeVars, taskVars, readVars>>

\* the receiver is dropped while the read task runs (the consumer task ends,
\* the runtime shuts down): the queued messages are dropped with it
ReceiverDropped ==
    /\ rxOpen
    /\ pc \notin {"unspawned", "done", "panicked"}
    /\ rxOpen' = FALSE
    /\ chan' = <<>>
    /\ UNCHANGED <<store, storeVars, fcall, uiVars, lockVars, netVars, writeVars, taskVars, readVars>>

Next ==
    \/ ServerSend \/ ServerClose
    \/ ConnectFail \/ ConnectOk \/ HandshakeLock \/ HandshakeWriteOk \/ HandshakeWriteErr
    \/ SpawnReadLoop
    \/ SendCommandLock \/ SendCommandOk \/ SendCommandErr \/ SendCommandTimeout
    \/ ReadData \/ LockParser \/ ParserReceive \/ ReadEnd
    \/ HandleDataReceive \/ HandleSubnegotiation \/ LockStore \/ UpdateStore
    \/ HandleDataSend \/ NegotiationWritten
    \/ HandleOther
    \/ SendOk \/ SendFails
    \/ Recv \/ ReceiverDropped

Spec == Init /\ [][Next]_vars

\* a step of handle_event other than the DataSend arm's can be taken: the
\* update under the lock held, or the event at the head, with the store lock
\* free if the event is to take it
HandlingEnabled ==
    \/ pc = "update"
    \/ /\ pc = "handle"
       /\ Head(evq).kind # "DataSend"
       /\ LocksStore(Head(evq)) => slock = NoHolder

\* such a step: HandleDataReceive, HandleSubnegotiation, LockStore,
\* UpdateStore or HandleOther
HandlingStep ==
    /\ pc \in {"handle", "update"}
    /\ Head(evq).kind # "DataSend"
    /\ pc' # pc \/ evq' # evq

\* What the runtime's scheduling gives: a task that can take a step takes it,
\* the mutex is granted in turn to a task that waits for it, and the timer
\* of send_command ends its write within five seconds.  Nothing makes the
\* peer take the bytes of the other writes: those may stay pending.
Fairness ==
    /\ WF_vars(ConnectFail \/ ConnectOk)
    /\ WF_vars(SpawnReadLoop)
    /\ SF_vars(HandshakeLock)
    /\ SF_vars(SendCommandLock)
    /\ SF_vars(HandleDataSend)
    /\ WF_vars(SendCommandOk \/ SendCommandErr \/ SendCommandTimeout)
    /\ WF_vars(ReadData \/ LockParser \/ ParserReceive \/ ReadEnd)
    \* weak fairness of the handling steps, their enabling condition written out
    /\ ([]<>~HandlingEnabled) \/ ([]<><<HandlingStep>>_vars)
    /\ WF_vars(SendOk \/ SendFails)
    /\ WF_vars(Recv)

FairSpec == Spec /\ Fairness

(***************************************************************************)
(* The functions called on their own (specification SpecFn)                *)
(***************************************************************************)
\* the buffers made of at most n pieces of the set tokens
RECURSIVE Buffers(_, _)
Buffers(tokens, n) ==
    IF n = 0 THEN {<<>>}
    ELSE Buffers(tokens, n - 1) \cup {b \o t : b \in Buffers(tokens, n - 1), t \in tokens}

\* raw buffers: IAC SB 201, IAC SE, a content byte, and stray IAC and SB
ScanTokens == {<<IAC, SB, TELOPT_GMCP>>, <<IAC, SE>>, <<88>>, <<IAC>>, <<SB>>}
ScanBuffers == Buffers(ScanTokens, MaxScanTokens)

\* payloads: a package name, whitespace and JSON texts
PayloadTokens ==
    {<<W.char, DOT, W.login>>, <<SPACE>>, <<LF>>, <<J.bob>>, <<J.roomTemple>>,
     <<J.two>>, <<J.five>>, <<J.bad>>}
Payloads == Buffers(PayloadTokens, MaxPayloadTokens)

\* text buffers: ESC[31m, ESC[41m, ESC[, and single characters
AnsiTokens ==
    {<<ESC, LBRACKET, 51, 49, CH_m>>, <<ESC, LBRACKET, 52, 49, CH_m>>, <<ESC, LBRACKET>>,
     <<ESC>>, <<LBRACKET>>, <<CH_m>>, <<88>>, <<LF>>, <<CR>>}
\* the text of the two-digit code with digits a and b
Code2(a, b) == <<48 + a, 48 + b>>

\* SGR parameter strings: "0", 30..37, 40..47, 90..97, "0;3d", "1;3d", 256-colour
\* keys of both kinds with an index in and out of the table, and strings that
\* are no key: "99", the empty string, "1;91", "38;5;", "38;5;07", and "31"
\* with a newline between its digits
SgrKeys ==
    {<<48>>, Code2(9, 9), <<>>, <<49, SEMI, 57, 49>>, FG256, BG256, <<51, LF, 49>>}
      \cup {Code2(t, d) : t \in {3, 4, 9}, d \in 0..7}
      \cup {<<48 + a, SEMI>> \o Code2(3, d) : a \in {0, 1}, d \in 0..7}
      \cup {p \o n : p \in {FG256, BG256},
                     n \in {<<48>>, Code2(1, 5), <<49, 57, 54>>, <<50, 51, 50>>,
                            <<50, 53, 53>>, <<50, 53, 54>>, Code2(0, 7)}}

\* what precedes the sequence: nothing, or ESC[31m ESC[41m
SgrPrefixes ==
    {<<>>, <<ESC, LBRACKET, 51, 49, CH_m, ESC, LBRACKET, 52, 49, CH_m>>}

\* ESC[<key>mX
SgrBuffers ==
    {pre \o <<ESC, LBRACKET>> \o key \o <<CH_m, 88>> : pre \in SgrPrefixes, key \in SgrKeys}

AnsiBuffers == Buffers(AnsiTokens, MaxAnsiTokens) \cup SgrBuffers
FollowBuffers == Buffers(AnsiTokens, MaxFollowTokens)

Returned(fn, in, out) ==
    /\ fcall' = [fn |-> fn, in |-> in, out |-> out, end |-> NoCall.end, before |-> fcall.end]
    /\ UNCHANGED <<store, storeVars, uiVars, lockVars, netVars, writeVars, taskVars, readVars, chanVars>>

CallExtract ==
    /\ fcall = NoCall
    /\ \E raw \in ScanBuffers :
          Returned("extract_gmcp_subnegotiations", raw, extract_gmcp_subnegotiations(raw))

CallParseGmcp ==
    /\ fcall = NoCall
    /\ \E data \in Payloads : Returned("parse_gmcp", data, parse_gmcp(data))

\* a call of parse_ansi_codes, the first or one that follows another
CallParseAnsi ==
    /\ fcall.fn \in {"none", "parse_ansi_codes"}
    /\ \E buffer \in (IF fcall = NoCall THEN AnsiBuffers ELSE FollowBuffers) :
          /\ fcall' = [fn |-> "parse_ansi_codes", in |-> buffer,
                       out |-> parse_ansi_codes(buffer), end |-> AnsiEnd(buffer),
                       before |-> fcall.end]
          /\ UNCHANGED <<store, storeVars, uiVars, lockVars, netVars, writeVars, taskVars, readVars, chanVars>>

\* texts with tags: <MXP>, </MXP>, pieces of the two and a letter
MxpTokens ==
    {MXP_OPEN, MXP_CLOSE, <<60, 77, 88>>, <<80, 62>>, <<60, 47, 77>>, <<88, 80, 62>>, <<60>>, <<88>>}
MxpTexts == Buffers(MxpTokens, MaxMxpTokens)

\* strip_mxp_tags on a text, and then on what it returned
CallStrip ==
    /\ fcall.fn \in {"none", "strip_mxp_tags"}
    /\ \E input \in (IF fcall = NoCall THEN MxpTexts ELSE {fcall.out}) :
          Returned("strip_mxp_tags", input, strip_mxp_tags(input))

\* chat texts: $x, $, $R, $w, digits and a letter; the texts
\* `Hello $Rworld$0!` and `$x196X`; and each marker letter before an X
MarkerTokens ==
    {<<DOLLAR, CH_x>>, <<DOLLAR>>, <<DOLLAR, 82>>, <<DOLLAR, 119>>, <<49>>, <<57>>,
     <<50, 53>>, <<48>>, <<88>>}
MarkerTexts ==
    Buffers(MarkerTokens, MaxMarkerTokens)
      \cup { <<72, 101, 108, 108, 111, SPACE, DOLLAR, 82, 119, 111, 114, 108, 100,
              DOLLAR, 48, 33>>,
             <<DOLLAR, CH_x, 49, 57, 54, 88>> }
      \cup {<<DOLLAR, c, 88>> : c \in {71, 77, 82, 89, 66, 67, 87, 119}}

CallParseMessage ==
    /\ fcall = NoCall
    /\ \E msg \in MarkerTexts : Returned("parse_gmcp_message", msg, parse_gmcp_message(msg))

\* COLOR_MAP.get(&format!("38;5;{}", i)) for an index of the loop that fills
\* the table
CallColorMap ==
    /\ fcall = NoCall
    /\ \E i \in 0..255 :
          Returned("generate_xterm_color_map", <<i>>, ColorMapGet(FG256 \o Format(i)))

NextFn ==
    \/ CallExtract \/ CallParseGmcp \/ CallParseAnsi \/ CallColorMap \/ CallStrip
    \/ CallParseMessage

SpecFn == InitStore /\ [][NextFn]_vars

(***************************************************************************)
(* Properties of the store (specification SpecStore)                       *)
(***************************************************************************)
Prefix(parts, k) == SubSeq(parts, 1, k)

\* some segment of the path is missing from data, or a proper prefix of the
\* path holds a value that is no object
Broken(data, parts) ==
    \E k \in 1..Len(parts) :
        \/ Prefix(parts, k) \notin DOMAIN data
        \/ k < Len(parts) /\ data[Prefix(parts, k)].t # "obj"

\* C8: when update(p, V) completes, get(p) right after it returns V; and when
\* the completed update before it wrote V1 at the same path, get(p) returns
\* the later value (last write wins).
C8_UpdateThenGet ==
    (lastOp.op = "update" /\ lastOp.ok) => get(store, lastOp.path) = Some(lastOp.value)

C8_Witness ==
    /\ lastOp.op = "update" /\ lastOp.ok
    /\ lastOp.over.some /\ lastOp.over.val # lastOp.value
    /\ Len(Split(lastOp.path, DOT)) = MaxDepth

\* C9: update(path, value) completes in every reachable store state for every
\* path, and after it every non-terminal segment of the path is an object and
\* the leaf holds the value.
C9_UpdateCompletes ==
    lastOp.op = "update" =>
        LET parts == Split(lastOp.path, DOT)
        IN /\ lastOp.ok
           /\ \A k \in 1..(Len(parts) - 1) : IsObject(store, Prefix(parts, k))
           /\ parts \in DOMAIN store
           /\ Subtree(store, parts) = lastOp.value

\* C10: get(path) returns absent whenever a segment of the path is missing or
\* a proper prefix of it holds a non-object value, returns absent for every
\* path on a newly created store, and leaves the store as it was.
C10_GetAbsent ==
    [][ (lastOp'.op = "get" /\ nOps' # nOps) =>
          /\ store' = store
          /\ Broken(store, Split(lastOp'.path, DOT)) => lastOp'.result = None
          /\ store = GMCPStore_new => lastOp'.result = None ]_vars

C10_Witness ==
    /\ lastOp.op = "get" /\ lastOp.result = None
    /\ \E k \in 1..(Len(Split(lastOp.path, DOT)) - 1) :
          /\ Prefix(Split(lastOp.path, DOT), k) \in DOMAIN store
          /\ store[Prefix(Split(lastOp.path, DOT), k)].t # "obj"

(***************************************************************************)
(* Properties of the session (specification Spec)                          *)
(***************************************************************************)
\* the messages of the tx.send calls made so far, and those the channel took
Sent == [i \in 1..Len(sendLog) |-> sendLog[i].msg]
ReadEnded == lastRead \in {"eof", "err"}

\* the messages of a sequence of events, in order
RECURSIVE MessagesOf(_)
MessagesOf(events) ==
    IF Len(events) = 0 THEN <<>>
    ELSE EventMessages(Head(events)) \o MessagesOf(Tail(events))

\* the messages of the reads made so far: read by read, the primary
\* decoder's events first, the fallback scanner's after them
RECURSIVE MessagesOfReads(_)
MessagesOfReads(log) ==
    IF Len(log) = 0 THEN <<>>
    ELSE MessagesOf(Head(log).primary) \o MessagesOf(Head(log).fallback)
            \o MessagesOfReads(Tail(log))

\* C1: the read loop sends the Disconnect exactly when the socket read has
\* returned EOF or an I/O error (then it is the one message left to send, and
\* no Disconnect is sent otherwise), sends it at most once, and after it
\* makes no further send and no further read.
C1_DisconnectOnce ==
    [][ /\ (ReadEnded' /\ pc' # "done") => (pc' = "send" /\ outq' = <<Disconnect>>)
        /\ (Len(sendLog') > Len(sendLog)) =>
              /\ sendLog' = Append(sendLog, sendLog'[Len(sendLog')])
              /\ (sendLog'[Len(sendLog')].msg = Disconnect) <=> ReadEnded
              /\ ReadEnded => pc' = "done"
              /\ \A i \in 1..Len(sendLog) : sendLog[i].msg # Disconnect
        /\ (pc = "done") => (pc' = "done" /\ nReads' = nReads /\ sendLog' = sendLog)
        /\ (pc' = "done") => (ReadEnded' /\ Len(sendLog') > 0
                                /\ sendLog'[Len(sendLog')].msg = Disconnect)
      ]_vars

C1_Witness ==
    /\ pc = "done"
    /\ Len(sendLog) > 1
    /\ sendLog[Len(sendLog)].msg = Disconnect
    /\ nReads > 1

\* C2: whatever GMCP payloads the received buffers carry, the read task never
\* aborts: it ends only after a read returned EOF or an error and the
\* Disconnect was sent.
C2_NeverAborts ==
    /\ pc # "panicked"
    /\ pc = "done" => (ReadEnded /\ sendLog[Len(sendLog)].msg = Disconnect)

\* C3: the server sends a char.login message with name Bob, then coloured
\* text, then closes.  However the bytes are cut into reads, the events put on
\* the channel are CharLogin("Bob"), the MUDOutput line(s) of the text and
\* Disconnect, in this order with nothing else, and get("char.login.name")
\* returns "Bob" afterwards.
C3_LoginScenario ==
    ( /\ scenario.stream = LoginStream /\ scenario.ending = "eof"
      /\ pc = "done" /\ ~sendFailed )
    => /\ Len(Sent) >= 3
       /\ Sent[1] = Message("CharLogin", <<Bob>>, <<>>)
       /\ \A i \in 2..(Len(Sent) - 1) : Sent[i].type = "MUDOutput"
       /\ Sent[Len(Sent)] = Disconnect
       /\ get(store, <<W.char, DOT, W.login, DOT, W.name>>) = Some(Str(Bob))

\* C4: the bytes the server sees are the writes, whole, in lock-acquisition
\* order: no byte of another write follows a write of which only a part
\* (cut off by the timeout of send_command, say) reached the wire.
C4_NoTornWrites ==
    \A i \in 1..Len(wlog) :
        (wlog[i].written > 0 /\ wlog[i].written < Len(wlog[i].bytes))
            => \A j \in (i + 1)..Len(wlog) : wlog[j].written = 0

\* C5: once a send has failed because the receiving side of the channel is
\* gone, the read task makes no further socket read, no further store update
\* and no further send.
C5_SendFailureFatal ==
    [][ sendFailed => (nReads' = nReads /\ store' = store /\ sendLog' = sendLog) ]_vars

\* the original statement of C6: while the channel is full the read task
\* performs no socket read and handles no further decoded event.
C6_SuspendedWhileFull ==
    [][ (rxOpen /\ Len(chan) = ChannelCapacity)
            => (nReads' = nReads /\ nHandled' = nHandled) ]_vars

\* C6: the channel never holds more than its capacity of undelivered events;
\* a send the read task has begun while the channel is full does not return,
\* and the task makes no read and handles no event, until the consumer has
\* received an event or the receiver is gone.
C6_Backpressure ==
    [][ /\ Len(chan') <= ChannelCapacity
        /\ (pc = "send" /\ rxOpen /\ Len(chan) = ChannelCapacity)
              => (pc' = "send" /\ sendLog' = sendLog /\ nReads' = nReads
                    /\ nHandled' = nHandled /\ store' = store)
      ]_vars

C6_Witness ==
    /\ pc = "send"
    /\ rxOpen
    /\ Len(chan) = ChannelCapacity

\* C7: the messages are sent read by read, and for each read in the order of
\* the primary decoder's events followed by the fallback scanner's events for
\* the same buffer; the Disconnect comes after all of them.
C7_SendOrder ==
    /\ IsPrefix(Sent, MessagesOfReads(readLog) \o <<Disconnect>>)
    /\ pc = "done" => Sent = MessagesOfReads(readLog) \o <<Disconnect>>

C7_Witness ==
    /\ pc = "done"
    /\ Len(readLog) > 1
    /\ \E k \in 1..Len(readLog) :
          /\ Len(MessagesOf(readLog[k].primary)) > 0
          /\ Len(MessagesOf(readLog[k].fallback)) > 0
          /\ MessagesOf(readLog[k].primary) # MessagesOf(readLog[k].fallback)

\* the handling of one GMCP subnegotiation event by handle_event: the step
\* that takes the event from the head of the read's events
HandlesGmcp ==
    /\ pc \in {"handle", "update"}
    /\ Head(evq).kind = "Subnegotiation"
    /\ Head(evq).opt = TELOPT_GMCP
    /\ nHandled' # nHandled

\* the (path, value) of the payload of the event being handled
Payload == parse_gmcp(from_utf8_lossy(Head(evq).data))

\* C11: every GMCP subnegotiation whose payload parses to (path, value) writes
\* the value at the path in the store, whatever the package and whether or not
\* the value matches a schema; a payload that neither form parses changes
\* nothing in the store and sends no event.
C11_StoreAlways ==
    [][ HandlesGmcp =>
          IF Payload.some
          THEN get(store', Payload.package) = Some(Payload.value)
          ELSE store' = store /\ outq' = <<>> /\ pc' # "send" ]_vars

\* the recognized packages, each with its schema and its typed event
Schemas ==
    { [package |-> <<W.char, DOT, W.login>>, fields |-> CharLogin, type |-> "CharLogin"],
      [package |-> <<W.char, DOT, W.vitals>>, fields |-> CharVitals, type |-> "CharVitals"],
      [package |-> <<W.char, DOT, W.maxstats>>, fields |-> CharMaxStats,
       type |-> "CharMaxStats"],
      [package |-> <<W.room, DOT, W.info>>, fields |-> RoomInfo, type |-> "RoomInfo"],
      [package |-> <<W.comm, DOT, W.channel>>, fields |-> CommChannel,
       type |-> "ChatMessage"],
      [package |-> <<W.char, DOT, W.status>>, fields |-> CharStatus, type |-> "CharStatus"],
      [package |-> <<W.group>>, fields |-> GroupInfo, type |-> "GroupInfo"] }

\* the schemas the payload of the event being handled matches
Matching ==
    IF Payload.some
    THEN {s \in Schemas : s.package = Payload.package /\ Deserializes(Payload.value, s.fields)}
    ELSE {}

\* C12: handling one GMCP subnegotiation event sends exactly one typed event
\* when the package is a recognized one and the value matches its schema, and
\* no event at all otherwise.
C12_TypedDispatch ==
    [][ HandlesGmcp =>
          IF Matching # {}
          THEN /\ pc' = "send"
               /\ Len(outq') = 1
               /\ \E s \in Matching : outq'[1].type = s.type
          ELSE outq' = <<>> /\ pc' # "send" ]_vars

\* the tasks that write to the socket
Writers == {ConnectTask, ReadTask} \cup {CmdTask(i) : i \in 1..MaxCommands}

\* C13: every outbound write, whichever writer issues it, is bounded by the
\* timeout: a write that has begun ends (done, failed or timed out) and its
\* writer releases the lock.
C13_WritesBounded ==
    \A w \in Writers : (wlock = w) ~> (wlock # w)

\* the entries of the write log made by one writer, in order
WritesOf(who) == SelectSeq(wlog, LAMBDA e : e.who = who)

Whole(e) == e.written = Len(e.bytes)

\* the texts connect is to request, in order
Requests ==
    << <<W.config, SPACE, W.compact>>, <<W.config, SPACE, W.prompt>>,
       <<W.config, SPACE, W.xterm, SPACE, W.yes>>, <<W.request, SPACE, W.char>>,
       <<W.request, SPACE, W.room>>, <<W.request, SPACE, W.area>>,
       <<W.request, SPACE, W.quest>>, <<W.request, SPACE, W.group>> >>

\* the k-th write connect is to make
Expected(k) ==
    IF k = 1 THEN <<255, 251, 201>>
    ELSE <<255, 250, 201>> \o Requests[k - 1] \o <<255, 240>>

\* C14: connect writes IAC WILL 201 and then the eight requests, each framed
\* as IAC SB 201 <text> IAC SE, in this order and all before the read loop is
\* spawned; no negotiation reply of the read task precedes them or falls
\* between them; connect returns after the last write, before any byte of the
\* server was read; and when one of the writes fails connect returns the
\* error and the read loop is never spawned.
C14_Handshake ==
    LET cw == WritesOf(ConnectTask)
    IN /\ Len(cw) <= Len(Requests) + 1
       /\ \A k \in 1..Len(cw) : cw[k].bytes = Expected(k)
       /\ \A k \in 1..(Len(cw) - 1) : Whole(cw[k])
       /\ \A i, j \in 1..Len(wlog) :
             (wlog[i].who = ReadTask /\ wlog[j].who = ConnectTask) => j < i
       /\ pc # "unspawned" =>
             /\ connPc = "returned"
             /\ Len(cw) = Len(Requests) + 1
             /\ \A k \in 1..Len(cw) : Whole(cw[k])
       /\ (connPc = "handshake" /\ Len(cw) = Len(Requests) + 1 /\ Whole(cw[Len(cw)]))
             => (ENABLED SpawnReadLoop /\ rcvbuf = <<>> /\ nReads = 0)
       /\ (\E k \in 1..Len(cw) : ~Whole(cw[k])) => connPc = "failed"
       /\ connPc = "failed" => (pc = "unspawned" /\ nReads = 0)

C14_Witness ==
    /\ connPc = "returned"
    /\ Len(WritesOf(ConnectTask)) = Len(Requests) + 1
    /\ Len(WritesOf(ReadTask)) > 0
    /\ \E i \in 1..MaxCommands : Len(WritesOf(CmdTask(i))) > 0

\* send_command call i returns a timeout or a write error in this step
CmdFails(i) ==
    /\ cmds[i].pc = "writing"
    /\ cmds'[i].pc = "done"
    /\ cmds'[i].result \in {"Write timed out", "Write error"}

\* send_command call i takes the lock in this step
CmdBegins(i) == cmds[i].pc = "idle" /\ cmds'[i].pc # "idle"

\* C15: a send_command that fails (timeout or write error) sends no
\* Disconnect, does not stop the read loop, leaves the store and the event
\* channel as they were and keeps the write handle, so that a later
\* send_command is attempted on it; and the read loop goes on after a
\* negotiation reply whose write failed.
C15_FailedSendNotFatal ==
    [][ /\ \A i \in 1..MaxCommands :
              CmdFails(i) =>
                  /\ UNCHANGED <<store, chan, rxOpen, sendLog, pc, evq, outq, nReads, lastRead>>
                  /\ writeHalf'
                  /\ wlock' = NoHolder
        /\ \A i \in 1..MaxCommands :
              (CmdBegins(i) /\ \E j \in 1..MaxCommands : cmds[j].result # "none" /\ writeHalf)
                  => (cmds'[i].pc = "writing" /\ wlock' = CmdTask(i))
        /\ (pc = "nego_write" /\ pc' # pc) =>
              /\ pc' = (IF Len(evq) > 1 THEN "handle" ELSE "read")
              /\ evq' = Tail(evq)
              /\ UNCHANGED <<sendLog, store, chan, rxOpen>>
      ]_vars

C15_Witness ==
    /\ cmds[1].result = "Write timed out"
    /\ Len(WritesOf(CmdTask(2))) > 0
    /\ pc = "send"
    /\ outq = <<Disconnect>>

\* bytes is text without the whitespace at its two ends, followed by CR LF
IsTrimmedCrlf(bytes, text) ==
    \E a, z \in 0..Len(text) :
        /\ a + z <= Len(text)
        /\ \A k \in 1..a : IsWhitespace(text[k])
        /\ \A k \in (Len(text) - z + 1)..Len(text) : IsWhitespace(text[k])
        /\ LET core == SubSeq(text, a + 1, Len(text) - z)
           IN /\ Len(core) > 0 => (~IsWhitespace(core[1]) /\ ~IsWhitespace(core[Len(core)]))
              /\ bytes = core \o <<13, 10>>

\* C16: the bytes send_command hands to write_all are the command text with
\* the whitespace at its two ends removed, followed by one CR LF, and no other
\* byte of its reaches the wire; with no write half (no connection made) it
\* returns "Not connected" and writes nothing.
C16_CommandCrlf ==
    [][ \A i \in 1..MaxCommands :
          /\ CmdBegins(i) =>
                IF writeHalf
                THEN /\ cmds'[i].pc = "writing"
                     /\ wlock' = CmdTask(i)
                     /\ IsTrimmedCrlf(wbytes', CommandText(i))
                     /\ wire' = wire
                ELSE /\ cmds'[i] = [pc |-> "done", result |-> "Not connected"]
                     /\ UNCHANGED <<wire, wlog, wlock, wbytes, writeHalf>>
          /\ (cmds[i].pc = "writing" /\ cmds'[i].pc = "done") =>
                /\ cmds'[i].result # "Not connected"
                /\ \E k \in 0..Len(wbytes) : wire' = wire \o SubSeq(wbytes, 1, k)
                /\ cmds'[i].result = "Ok" => wire' = wire \o wbytes
      ]_vars

C16_Witness ==
    /\ scenario.text = <<TAB, W.look, SPACE, W.hi, LF>>
    /\ cmds[1].result = "Ok"
    /\ WritesOf(CmdTask(1)) = << [who |-> CmdTask(1), written |-> 5,
                                  bytes |-> <<W.look, SPACE, W.hi, 13, 10>>] >>

(***************************************************************************)
(* Properties of the functions (specification SpecFn)                      *)
(***************************************************************************)
\* the positions of raw at which IAC SB 201 begins, and those at which IAC SE
StartsIn(raw) ==
    {p \in 1..(Len(raw) - 2) : raw[p] = 255 /\ raw[p + 1] = 250 /\ raw[p + 2] = 201}
EndsIn(raw) == {e \in 1..(Len(raw) - 1) : raw[e] = 255 /\ raw[e + 1] = 240}

SetMin(S) == CHOOSE x \in S : \A y \in S : x <= y

\* the first IAC SE after the IAC SB 201 at p; 0 when there is none
EndOf(raw, p) ==
    IF \E e \in EndsIn(raw) : e >= p + 3
    THEN SetMin({e \in EndsIn(raw) : e >= p + 3}) ELSE 0

\* the occurrences the scan finds from position from on: the first one that
\* is ended, then those found after its SE
RECURSIVE Occurrences(_, _)
Occurrences(raw, from) ==
    LET ended == {p \in StartsIn(raw) : p >= from /\ EndOf(raw, p) # 0}
    IN IF ended = {} THEN <<>>
       ELSE <<SetMin(ended)>> \o Occurrences(raw, EndOf(raw, SetMin(ended)) + 2)

\* C17: the fallback scanner returns, in buffer order, one option-201
\* subnegotiation event for each occurrence of IAC SB 201 that an IAC SE
\* follows in the buffer, its payload the bytes between the 201 and the first
\* IAC SE after it, the scan resuming after that SE; an occurrence no IAC SE
\* follows gives no event.  A buffer that is IAC SB 201 <bytes> IAC SE gives
\* one event with payload <bytes>, and without the IAC SE none.
C17_FallbackScanner ==
    fcall.fn = "extract_gmcp_subnegotiations" =>
        LET raw == fcall.in
            found == Occurrences(raw, 1)
        IN /\ Len(fcall.out) = Len(found)
           /\ \A k \in 1..Len(found) :
                 fcall.out[k] = [kind |-> "Subnegotiation", opt |-> 201,
                                 data |-> SubSeq(raw, found[k] + 3,
                                                 EndOf(raw, found[k]) - 1)]
           /\ EndsIn(raw) = {} => fcall.out = <<>>
           /\ (1 \in StartsIn(raw) /\ EndsIn(raw) = {Len(raw) - 1})
                 => fcall.out = << [kind |-> "Subnegotiation", opt |-> 201,
                                    data |-> SubSeq(raw, 4, Len(raw) - 2)] >>

\* two frames, the first with an IAC SB 201 inside its payload
C17_Witness ==
    /\ fcall.fn = "extract_gmcp_subnegotiations"
    /\ Len(fcall.out) = 2
    /\ Cardinality(StartsIn(fcall.in)) = 3

\* C18: when the whole trimmed payload is a JSON object with exactly one key,
\* that key is the package path and its value the value; otherwise the
\* payload is cut at its first whitespace, the first token is the path and
\* the trimmed rest must be JSON; else the result is absent.  So
\* `char.login {"name":"Bob"}` gives (char.login, {name: Bob}) and
\* `{"room.info":{...}}` gives (room.info, {...}).
C18_ParseGmcp ==
    fcall.fn = "parse_gmcp" =>
        LET t == Trim(fcall.in)
            whole == from_str(t)
            cuts == {k \in 1..Len(t) : IsWhitespace(t[k])}
            rest == from_str(Trim(SubSeq(t, SetMin(cuts) + 1, Len(t))))
        IN /\ IF whole.ok /\ whole.val[<<>>].t = "obj"
                   /\ Cardinality({q \in DOMAIN whole.val : Len(q) = 1}) = 1
              THEN /\ fcall.out.some
                   /\ <<fcall.out.package>> \in DOMAIN whole.val
                   /\ fcall.out.value = Subtree(whole.val, <<fcall.out.package>>)
              ELSE IF cuts # {} /\ rest.ok
              THEN fcall.out = [some |-> TRUE, package |-> SubSeq(t, 1, SetMin(cuts) - 1),
                                value |-> rest.val]
              ELSE ~fcall.out.some
           /\ fcall.in = <<W.char, DOT, W.login, SPACE, J.bob>> =>
                 fcall.out = [some |-> TRUE, package |-> <<W.char, DOT, W.login>>,
                              value |-> JsonObject1(<<W.name>>, Str(Bob))]
           /\ fcall.in = <<J.roomTemple>> =>
                 fcall.out = [some |-> TRUE, package |-> <<W.room, DOT, W.info>>,
                              value |-> TempleRoom]

C18_Witness ==
    /\ fcall.fn = "parse_gmcp"
    /\ fcall.in = <<LF, J.roomTemple, SPACE>>
    /\ fcall.out.some

\* C19: parse_ansi_codes keeps no state between calls: whatever colours and
\* parser state the call before ended in, a call returns what a first call
\* returns for the same buffer, and starts in state Normal with foreground
\* white and no background.
C19_NoStateAcrossCalls ==
    fcall.fn = "parse_ansi_codes" =>
        LET input == strip_mxp_tags(from_utf8_lossy(fcall.in))
            st == AnsiScan(input, 1,
                      [results |-> <<>>, line |-> <<>>, text |-> <<>>,
                       fg |-> <<"White", 0, 0, 0>>, bg |-> <<"None", 0, 0, 0>>,
                       state |-> "Normal", code |-> <<>>])
            last == PushText(st.line, st.text, st.fg, st.bg)
        IN /\ fcall.out = IF Len(last) > 0 THEN Append(st.results, last) ELSE st.results
           /\ fcall.in = <<88>> =>
                 fcall.out = << << [content |-> <<88>>, fg |-> <<"White", 0, 0, 0>>,
                                    bg |-> <<"None", 0, 0, 0>>] >> >>
           /\ fcall.in = <<LBRACKET>> => Len(fcall.out) = 1
           /\ fcall.in = <<CH_m>> => Len(fcall.out) = 1

\* a call made after a call that ended inside an escape sequence, with a
\* foreground and a background set
C19_Witness ==
    /\ fcall.fn = "parse_ansi_codes"
    /\ fcall.before.state = "Parsing"
    /\ fcall.before.fg # White
    /\ fcall.before.bg # NoColor
    /\ fcall.in = <<CH_m>>

\* the state parse_ansi_codes is in before each character of s, by the
\* transitions of its three states
StateBefore(s) ==
    LET K[i \in 1..(Len(s) + 1)] ==
            IF i = 1 THEN "Normal"
            ELSE IF K[i - 1] = "Normal"
            THEN IF s[i - 1] = 27 THEN "Escaped" ELSE "Normal"
            ELSE IF K[i - 1] = "Escaped"
            THEN IF s[i - 1] = 91 THEN "Parsing" ELSE "Normal"
            ELSE IF s[i - 1] = 109 THEN "Normal" ELSE "Parsing"
    IN K

\* the characters of s, from position a to position b, that are text: those
\* consumed in Normal other than ESC, newline and carriage return, and the
\* one that follows an ESC without being '['
RECURSIVE TextBetween(_, _, _, _)
TextBetween(s, K, a, b) ==
    IF a > b THEN <<>>
    ELSE (IF \/ K[a] = "Normal" /\ s[a] \notin {27, 10, 13}
             \/ K[a] = "Escaped" /\ s[a] # 91
          THEN <<s[a]>> ELSE <<>>) \o TextBetween(s, K, a + 1, b)

\* the elements of a set of numbers in increasing order
RECURSIVE Sorted(_)
Sorted(S) == IF S = {} THEN <<>> ELSE <<SetMin(S)>> \o Sorted(S \ {SetMin(S)})

\* C20: the output of parse_ansi_codes has one Line for each newline consumed
\* in state Normal, in input order, a Line of no spans for an empty line, and
\* one last Line for the text after the last such newline when there is any;
\* carriage returns consumed in state Normal are in no span and end no line.
C20_Lines ==
    fcall.fn = "parse_ansi_codes" =>
        LET s == strip_mxp_tags(from_utf8_lossy(fcall.in))
            K == StateBefore(s)
            nl == Sorted({i \in 1..Len(s) : s[i] = 10 /\ K[i] = "Normal"})
            from(k) == IF k = 1 THEN 1 ELSE nl[k - 1] + 1
            tail == TextBetween(s, K, from(Len(nl) + 1), Len(s))
        IN /\ Len(fcall.out) = Len(nl) + (IF tail = <<>> THEN 0 ELSE 1)
           /\ \A k \in 1..Len(nl) :
                 /\ FullText(fcall.out[k]) = TextBetween(s, K, from(k), nl[k] - 1)
                 /\ (Len(fcall.out[k]) = 0) <=> (TextBetween(s, K, from(k), nl[k] - 1) = <<>>)
           /\ tail # <<>> => FullText(fcall.out[Len(nl) + 1]) = tail

\* an empty line between two lines of text, with a carriage return
C20_Witness ==
    /\ fcall.fn = "parse_ansi_codes"
    /\ fcall.in = <<CR, LF, 88>>
    /\ Len(fcall.out) = 2
    /\ fcall.out[1] = <<>>

\* the eight standard colours and the eight bright ones, black to white
Standard8 ==
    << <<"Rgb", 0, 0, 0>>, <<"Rgb", 128, 0, 0>>, <<"Rgb", 0, 128, 0>>,
       <<"Rgb", 128, 128, 0>>, <<"Rgb", 0, 0, 128>>, <<"Rgb", 128, 0, 128>>,
       <<"Rgb", 0, 128, 128>>, <<"Rgb", 192, 192, 192>> >>
Bright8 ==
    << <<"Rgb", 128, 128, 128>>, <<"Rgb", 255, 0, 0>>, <<"Rgb", 0, 255, 0>>,
       <<"Rgb", 255, 255, 0>>, <<"Rgb", 0, 0, 255>>, <<"Rgb", 255, 0, 255>>,
       <<"Rgb", 0, 255, 255>>, <<"Rgb", 255, 255, 255>> >>

\* entries of the 256-colour table: 0, 15, 196, 232 and 255
Entries256 ==
    { [n |-> <<48>>, col |-> <<"Rgb", 0, 0, 0>>],
      [n |-> <<49, 53>>, col |-> <<"Rgb", 255, 255, 255>>],
      [n |-> <<49, 57, 54>>, col |-> <<"Rgb", 255, 0, 0>>],
      [n |-> <<50, 51, 50>>, col |-> <<"Rgb", 8, 8, 8>>],
      [n |-> <<50, 53, 53>>, col |-> <<"Rgb", 238, 238, 238>>] }

\* the rule table without the bright foreground codes: each key with what it
\* sets and the colour it sets it to
RulesButBright ==
    {[key |-> <<51, 56, 59, 53, 59>> \o e.n, sets |-> "fg", col |-> e.col] : e \in Entries256}
      \cup {[key |-> <<52, 56, 59, 53, 59>> \o e.n, sets |-> "bg", col |-> e.col] :
                e \in Entries256}
      \cup {[key |-> <<52, 48 + d>>, sets |-> "bg", col |-> Standard8[d + 1]] : d \in 0..7}
      \cup {[key |-> <<51, 48 + d>>, sets |-> "fg", col |-> Standard8[d + 1]] : d \in 0..7}
      \cup {[key |-> <<48, 59, 51, 48 + d>>, sets |-> "fg", col |-> Standard8[d + 1]] :
                d \in 0..7}
      \cup {[key |-> <<49, 59, 51, 48 + d>>, sets |-> "fg", col |-> Bright8[d + 1]] :
                d \in 0..7}

\* 90..97: the bright foreground colours
RulesBright ==
    {[key |-> <<57, 48 + d>>, sets |-> "fg", col |-> Bright8[d + 1]] : d \in 0..7}

\* the style a span has after the sequence with parameter string key, by the
\* rules, when the style before it was (fg, bg)
StyleAfter(rules, key, fg, bg) ==
    IF key = <<48>> THEN [fg |-> <<"White", 0, 0, 0>>, bg |-> <<"None", 0, 0, 0>>]
    ELSE IF \E r \in rules : r.key = key
    THEN LET r == CHOOSE r \in rules : r.key = key
         IN IF r.sets = "fg" THEN [fg |-> r.col, bg |-> bg] ELSE [fg |-> fg, bg |-> r.col]
    ELSE [fg |-> fg, bg |-> bg]

\* ESC[<key>mX, alone or after ESC[31m ESC[41m, gives one line of one span
\* with text X in the style the rules give
OneSpanByRules(rules) ==
    \A key \in SgrKeys :
        /\ fcall.in = <<27, 91>> \o key \o <<109, 88>> =>
              fcall.out = << << [content |-> <<88>>,
                                 fg |-> StyleAfter(rules, key, <<"White", 0, 0, 0>>,
                                                   <<"None", 0, 0, 0>>).fg,
                                 bg |-> StyleAfter(rules, key, <<"White", 0, 0, 0>>,
                                                   <<"None", 0, 0, 0>>).bg] >> >>
        /\ fcall.in = <<27, 91, 51, 49, 109, 27, 91, 52, 49, 109, 27, 91>> \o key \o <<109, 88>> =>
              fcall.out = << << [content |-> <<88>>,
                                 fg |-> StyleAfter(rules, key, <<"Rgb", 128, 0, 0>>,
                                                   <<"Rgb", 128, 0, 0>>).fg,
                                 bg |-> StyleAfter(rules, key, <<"Rgb", 128, 0, 0>>,
                                                   <<"Rgb", 128, 0, 0>>).bg] >> >>

\* C21: the parameter string of an SGR sequence is one key, first matching
\* rule wins: "0" sets foreground white and clears the background; "38;5;N"
\* sets the foreground and "48;5;N" the background from the 256-colour table;
\* 40..47 set the background from the eight standard colours; 90..97 set the
\* foreground to the bright colour; any other code sets the foreground from
\* the key that is the code itself when it has a ';' and "0;<code>" when it
\* has none; a key with no entry changes nothing.  So ESC[<key>mX gives one
\* line of one span with text X in the colour of the key.
C21_SgrKeys ==
    fcall.fn = "parse_ansi_codes" => OneSpanByRules(RulesButBright \cup RulesBright)


\* C22: the entry "38;5;i" of the table is, for every i in 0..255, the fixed
\* palette entry for i < 16, the cube colour ((j/36)*51, ((j%36)/6)*51,
\* (j%6)*51) with j = i - 16 for 16 <= i < 232, and the gray 8 + (i-232)*10 on
\* all channels for i >= 232; every channel is in 0..255 without wrap-around;
\* 196 is (255,0,0), 232 (8,8,8), 15 (255,255,255) and 255 (238,238,238).
C22_Xterm256 ==
    fcall.fn = "generate_xterm_color_map" =>
        LET i == fcall.in[1]
            j == i - 16
            r == (j \div 36) * 51
            g == ((j % 36) \div 6) * 51
            b == (j % 6) * 51
            level == 8 + (i - 232) * 10
        IN /\ fcall.out.some
           /\ i < 16 => fcall.out.col = (Standard8 \o Bright8)[i + 1]
           /\ (16 <= i /\ i < 232) =>
                 /\ {r, g, b} \subseteq 0..255
                 /\ fcall.out.col = <<"Rgb", r, g, b>>
           /\ i >= 232 =>
                 /\ level \in 0..255
                 /\ fcall.out.col = <<"Rgb", level, level, level>>
           /\ i = 196 => fcall.out.col = <<"Rgb", 255, 0, 0>>
           /\ i = 232 => fcall.out.col = <<"Rgb", 8, 8, 8>>
           /\ i = 15 => fcall.out.col = <<"Rgb", 255, 255, 255>>
           /\ i = 255 => fcall.out.col = <<"Rgb", 238, 238, 238>>

\* the last entry of the table: the gray that is nearest to wrapping
C22_Witness ==
    /\ fcall.fn = "generate_xterm_color_map"
    /\ fcall.in = <<255>>
    /\ fcall.out.some
    /\ fcall.out.col[2] = 238

\* C23: strip_mxp_tags is idempotent: applied to what it returned, it returns
\* it unchanged, also when a tag is nested inside the characters of another
\* (as in "<MX<MXP>P>").
C23_StripIdempotent ==
    [][ (fcall.fn = "strip_mxp_tags" /\ fcall'.fn = "strip_mxp_tags")
            => fcall'.out = fcall.out ]_vars

\* the texts `Hello $Rworld$0!` and `$x196X`
HelloWorld ==
    <<72, 101, 108, 108, 111, 32, 36, 82, 119, 111, 114, 108, 100, 36, 48, 33>>
X196 == <<36, 120, 49, 57, 54, 88>>

PlainSpan(text, fg) == [content |-> text, fg |-> fg, bg |-> <<"None", 0, 0, 0>>]

\* the original statement of C24: `Hello $Rworld$0!` gives the three spans
\* ("Hello ", default), ("world", red), ("!", white), and `$x196X` the one
\* span ("X", rgb(255,0,0)).
C24_InlineExamples ==
    fcall.fn = "parse_gmcp_message" =>
        /\ fcall.in = HelloWorld =>
              fcall.out = << PlainSpan(<<72, 101, 108, 108, 111, 32>>, <<"White", 0, 0, 0>>),
                             PlainSpan(<<119, 111, 114, 108, 100>>, <<"Rgb", 255, 0, 0>>),
                             PlainSpan(<<33>>, <<"White", 0, 0, 0>>) >>
        /\ fcall.in = X196 => fcall.out = << PlainSpan(<<88>>, <<"Rgb", 255, 0, 0>>) >>

\* C24: `Hello $Rworld$0!` gives the two spans ("Hello ", white) and
\* ("world$0!", red), `$0` being no marker and left in the text as it is; and
\* `$x196X` gives the one span ("X", rgb(255,0,0)).
C24_InlineExamplesAmended ==
    fcall.fn = "parse_gmcp_message" =>
        /\ fcall.in = HelloWorld =>
              fcall.out = << PlainSpan(<<72, 101, 108, 108, 111, 32>>, <<"White", 0, 0, 0>>),
                             PlainSpan(<<119, 111, 114, 108, 100, 36, 48, 33>>,
                                       <<"Rgb", 255, 0, 0>>) >>
        /\ fcall.in = X196 => fcall.out = << PlainSpan(<<88>>, <<"Rgb", 255, 0, 0>>) >>

C24_Witness ==
    /\ fcall.fn = "parse_gmcp_message"
    /\ fcall.in = HelloWorld
    /\ Len(fcall.out) = 2

\* the marker letters with their colours: G M R Y B C W w
MarkerColours ==
    (71 :> <<"Rgb", 0, 255, 0>>) @@ (77 :> <<"Rgb", 255, 0, 255>>)
      @@ (82 :> <<"Rgb", 255, 0, 0>>) @@ (89 :> <<"Rgb", 255, 255, 0>>)
      @@ (66 :> <<"Rgb", 0, 0, 255>>) @@ (67 :> <<"Rgb", 0, 255, 255>>)
      @@ (87 :> <<"Rgb", 255, 255, 255>>) @@ (119 :> <<"Rgb", 255, 255, 255>>)

\* what each character of a chat text is: the `$` of a marker ("mark"), the x
\* or the letter after it ("sel"), a digit of the run after `$x` ("digit"), or
\* ordinary text ("lit"), a `$` that begins no marker included
MarkerRoles(s) ==
    LET R[i \in 1..Len(s)] ==
            IF i > 1 /\ R[i - 1] = "mark" THEN "sel"
            ELSE IF /\ i > 1 /\ s[i] \in 48..57
                    /\ (R[i - 1] = "digit" \/ (R[i - 1] = "sel" /\ s[i - 1] = 120))
            THEN "digit"
            ELSE IF /\ s[i] = 36 /\ i < Len(s)
                    /\ s[i + 1] \in {120} \cup DOMAIN MarkerColours
            THEN "mark"
            ELSE "lit"
    IN R

\* the ordinary text of s from position a to position b
RECURSIVE LitBetween(_, _, _, _)
LitBetween(s, R, a, b) ==
    IF a > b THEN <<>>
    ELSE (IF R[a] = "lit" THEN <<s[a]>> ELSE <<>>) \o LitBetween(s, R, a + 1, b)

\* the texts between the markers that are not empty, in order, each with the
\* position of the marker before it (0 before the first marker)
RECURSIVE TextsByMarker(_, _, _, _)
TextsByMarker(s, R, marks, k) ==
    IF k > Len(marks) THEN <<>>
    ELSE LET a == IF k = 0 THEN 1 ELSE marks[k]
             b == IF k = Len(marks) THEN Len(s) ELSE marks[k + 1] - 1
             text == LitBetween(s, R, a, b)
         IN (IF text = <<>> THEN <<>>
             ELSE << [content |-> text, mark |-> IF k = 0 THEN 0 ELSE marks[k]] >>)
                \o TextsByMarker(s, R, marks, k + 1)

\* the digits that follow the `$x` at position p
DigitsAfter(s, R, p) ==
    SubSeq(s, p + 2,
           p + 1 + Cardinality({i \in (p + 2)..Len(s) : \A m \in (p + 2)..i : R[m] = "digit"}))

\* fg is the colour the marker at position p selects (white before the first
\* marker); nothing is said of `$x` with no digit, more than three digits or an
\* index above 255
SelectedBy(s, R, p, fg) ==
    IF p = 0 THEN fg = <<"White", 0, 0, 0>>
    ELSE IF s[p + 1] \in DOMAIN MarkerColours THEN fg = MarkerColours[s[p + 1]]
    ELSE LET ds == DigitsAfter(s, R, p)
         IN (Len(ds) \in 1..3 /\ DecimalValue(ds) <= 255) => fg = Xterm(DecimalValue(ds))

\* C25: `$x` with the digits after it, all of them, selects the entry of the
\* 256-colour table that the digits name, and $G $M $R $Y $B $C $W $w select
\* their colours; no character of a marker is in a span.  A `$` before any
\* other character, or at the end, stays in the text as a `$`, and the
\* character after it is read again as ordinary input: `$$R` gives a `$` and
\* then selects red.
C25_Markers ==
    fcall.fn = "parse_gmcp_message" =>
        LET s == fcall.in
            R == MarkerRoles(s)
            marks == Sorted({i \in 1..Len(s) : R[i] = "mark"})
            texts == TextsByMarker(s, R, marks, 0)
        IN /\ Len(fcall.out) = Len(texts)
           /\ \A n \in 1..Len(texts) :
                 /\ fcall.out[n].content = texts[n].content
                 /\ fcall.out[n].bg = <<"None", 0, 0, 0>>
                 /\ SelectedBy(s, R, texts[n].mark, fcall.out[n].fg)
           /\ s = <<36, 36, 82>> => fcall.out = << PlainSpan(<<36>>, <<"White", 0, 0, 0>>) >>
           /\ s = <<88, 36>> => fcall.out = << PlainSpan(<<88, 36>>, <<"White", 0, 0, 0>>) >>

\* `$$wX` and `$x25` with a second `25` after it: a literal `$` before a
\* marker, and a run of four digits
C25_Witness ==
    /\ fcall.fn = "parse_gmcp_message"
    /\ \/ fcall.in = <<36, 36, 119, 88>> /\ Len(fcall.out) = 2
       \/ fcall.in = <<36, 120, 50, 53, 50, 53, 88>> /\ Len(fcall.out) = 1

(***************************************************************************)
(* Properties of the session: frames, locks and the end of the session     *)
(***************************************************************************)
\* the events decoded so far, read by read in the order they are handled,
\* each with the decoder it comes from
RECURSIVE Decoded(_)
Decoded(log) ==
    IF Len(log) = 0 THEN <<>>
    ELSE [n \in 1..Len(Head(log).primary) |-> [from |-> "primary", ev |-> Head(log).primary[n]]]
           \o [n \in 1..Len(Head(log).fallback) |->
                  [from |-> "fallback", ev |-> Head(log).fallback[n]]]
           \o Decoded(Tail(log))

\* those of them whose handling has begun
Handled == SubSeq(Decoded(readLog), 1, nHandled)

\* the number of bytes the reads before read k returned
RECURSIVE ReadOffset(_)
ReadOffset(k) == IF k <= 1 THEN 0 ELSE ReadOffset(k - 1) + Len(readLog[k - 1].raw)

\* the frames of the stream (the positions of their IAC SB 201) that the reads
\* made so far have returned to the end
FramesRead ==
    {p \in StartsIn(scenario.stream) :
        /\ \E n \in 1..Len(Occurrences(scenario.stream, 1)) :
              Occurrences(scenario.stream, 1)[n] = p
        /\ EndOf(scenario.stream, p) + 1 <= ReadOffset(Len(readLog) + 1)}

FramePayload(p) == SubSeq(scenario.stream, p + 3, EndOf(scenario.stream, p) - 1)

\* the frame at p lies within the bytes of one read
InOneRead(p) ==
    \E k \in 1..Len(readLog) :
        /\ ReadOffset(k) < p
        /\ EndOf(scenario.stream, p) + 1 <= ReadOffset(k) + Len(readLog[k].raw)

\* how many times the frame at p was handled as an event of the given decoder
TimesHandled(p, from) ==
    Cardinality({n \in 1..Len(Handled) :
                    /\ Handled[n].from = from
                    /\ Handled[n].ev.kind = "Subnegotiation"
                    /\ Handled[n].ev.data = FramePayload(p)})

\* how many typed events were sent for the frame at p
TimesSent(p) ==
    Cardinality({n \in 1..Len(sendLog) :
                    \E m \in 1..Len(GmcpStringMessages(from_utf8_lossy(FramePayload(p)))) :
                        sendLog[n].msg = GmcpStringMessages(from_utf8_lossy(FramePayload(p)))[m]})

\* C26: one GMCP frame of the server causes at most two store updates and at
\* most two typed events; a frame that lies within one read buffer is handled
\* once from the primary decoder and once from the fallback scanner, and a
\* frame split across two reads is handled exactly once.  (Stated of the
\* frames read to their end, once the events of the reads are handled or the
\* task has ended.)
C26_AtMostOneDuplicate ==
    pc \in {"read", "done", "panicked"} =>
        \A p \in FramesRead :
            /\ TimesHandled(p, "primary") + TimesHandled(p, "fallback") <= 2
            /\ TimesSent(p) <= 2
            /\ IF InOneRead(p)
               THEN TimesHandled(p, "primary") = 1 /\ TimesHandled(p, "fallback") = 1
               ELSE TimesHandled(p, "primary") + TimesHandled(p, "fallback") = 1

\* the messages the consumer has received (while the receiver exists every
\* send has been queued, and what the channel holds is not received yet)
Received == SubSeq(Sent, 1, Len(sendLog) - Len(chan))

\* the path and value of a handled event, when it is a GMCP subnegotiation
\* that parses
Parsed(n) ==
    IF Handled[n].ev.kind = "Subnegotiation" /\ Handled[n].ev.opt = 201
    THEN parse_gmcp(from_utf8_lossy(Handled[n].ev.data))
    ELSE [some |-> FALSE, package |-> <<>>, value |-> JsonNull]

\* the number of messages sent for the handled events before event n (the
\* messages of an event are sent before the next event is handled)
SentBefore(n) == Len(MessagesOf([k \in 1..(n - 1) |-> Handled[k].ev]))

\* the handled GMCP messages whose typed event the consumer has received
Delivered ==
    {n \in 1..Len(Handled) :
        /\ Parsed(n).some
        /\ EventMessages(Handled[n].ev) # <<>>
        /\ SentBefore(n) + 1 <= Len(Received)
        /\ Received[SentBefore(n) + 1] = EventMessages(Handled[n].ev)[1]}

\* the values of message n and of the messages handled after it with its path
SameOrLater(n) ==
    {Parsed(k).value : k \in {j \in n..Len(Handled) :
                                 Parsed(j).some /\ Parsed(j).package = Parsed(n).package}}

\* the original statement of C27: once the consumer has received the typed
\* event of a GMCP message, the store holds at the package path the value of
\* that message or of a later message with the same path, never an older value
\* and never nothing.
C27_UpdateBeforeEvent ==
    rxOpen =>
        \A n \in Delivered :
            /\ get(store, Parsed(n).package).some
            /\ get(store, Parsed(n).package).val \in SameOrLater(n)

\* one path is the other or leads to it
Overlap(p, q) == IsPrefix(Split(p, 46), Split(q, 46)) \/ IsPrefix(Split(q, 46), Split(p, 46))

\* a message handled after message n wrote at another path that is above or
\* below the path of n
Overwritten(n) ==
    \E k \in (n + 1)..Len(Handled) :
        /\ Parsed(k).some
        /\ Parsed(k).package # Parsed(n).package
        /\ Overlap(Parsed(k).package, Parsed(n).package)

\* C27: the store update of a GMCP message is made before its typed event is
\* sent: while the event waits to be sent the store holds the value at the
\* path; and once the consumer has received the event, the store holds at the
\* path the value of that message or of a later message with the same path,
\* unless a later message has written above or below that path.
C27_UpdateBeforeEventAmended ==
    /\ ( /\ pc = "send" /\ nHandled > 0 /\ Parsed(nHandled).some
         /\ Handled[nHandled].ev.kind = "Subnegotiation" )
          => get(store, Parsed(nHandled).package) = Some(Parsed(nHandled).value)
    /\ rxOpen =>
          \A n \in Delivered :
              ~Overwritten(n) =>
                  /\ get(store, Parsed(n).package).some
                  /\ get(store, Parsed(n).package).val \in SameOrLater(n)

\* the consumer has the event of char.login {"name":"Bob"} and the store
\* holds the value of the later char.login {"name":5}
C27_Witness ==
    /\ rxOpen
    /\ \E n \in Delivered :
          /\ ~Overwritten(n)
          /\ get(store, Parsed(n).package).some
          /\ get(store, Parsed(n).package).val # Parsed(n).value


\* the locks the read task holds
ReadTaskHolds ==
    {l \in {"parser", "store", "write"} :
        (CASE l = "parser" -> plock [] l = "store" -> slock [] OTHER -> wlock) = ReadTask}

\* the read task waits: for the socket, for a lock, or for room in the channel
ReadTaskWaits == pc \in {"read", "lock_parser", "handle", "send"}

\* C28: the read task never holds two of the three locks (parser, store,
\* write half) at once, and holds none while it waits for a lock or is
\* suspended sending on the event channel; so a full channel keeps neither
\* send_command from the write handle nor a reader from the store.
C28_NoLockCycle ==
    /\ Cardinality(ReadTaskHolds) <= 1
    /\ ReadTaskWaits => ReadTaskHolds = {}
    /\ (pc = "send" /\ Len(chan) = ChannelCapacity) => (wlock # ReadTask /\ slock = NoHolder)
    /\ pc = "receive" <=> ReadTaskHolds = {"parser"}
    /\ pc = "update" <=> ReadTaskHolds = {"store"}
    /\ pc = "nego_write" <=> ReadTaskHolds = {"write"}

C28_Witness ==
    /\ pc = "send"
    /\ rxOpen
    /\ Len(chan) = ChannelCapacity
    /\ Len(readLog) > 0
    /\ ReadTaskHolds = {}


\* the read task handles a GMCP subnegotiation whose payload parses, under
\* the store lock
UpdatesFromGmcp ==
    /\ pc = "update"
    /\ slock = ReadTask
    /\ Head(evq).kind = "Subnegotiation"
    /\ Head(evq).opt = TELOPT_GMCP
    /\ Payload.some
    /\ pc' # "update"

\* C29: the store is changed only by the read task while it handles a GMCP
\* subnegotiation: the steps of connect, of send_command, of the negotiation
\* replies, of the handling of content and of the subnegotiations of other
\* options, and of the consumer leave every stored value as it was.
C29_StoreFrame ==
    [][ store' # store =>
            (UpdatesFromGmcp /\ store' = update(store, Payload.package, Payload.value).data)
      ]_vars

\* a subnegotiation of another option with a payload that parses has been
\* handled, and the store has been written
C29_Witness ==
    /\ \E n \in 1..nHandled :
          /\ Handled[n].ev.kind = "Subnegotiation"
          /\ Handled[n].ev.opt # TELOPT_GMCP
          /\ parse_gmcp(from_utf8_lossy(Handled[n].ev.data)).some
    /\ \E n \in 1..nHandled : Parsed(n).some
    /\ store # GMCPStore_new


\* the consumer has taken the Disconnect from the channel, or is gone
ConsumerEnded == ~rxOpen

\* C30: under fair scheduling, with a consumer that keeps receiving, once the
\* server has closed the connection (or the read is to fail) the Disconnect is
\* eventually delivered to the consumer, negotiation replies on the way or not.
C30_DisconnectDelivered == closed ~> ConsumerEnded


(***************************************************************************)
(* Properties of the spans of parse_ansi_codes                             *)
(***************************************************************************)
\* StateBefore(s) as a sequence
RECURSIVE StatesFrom(_, _, _)
StatesFrom(s, i, K) ==
    IF i > Len(s) + 1 THEN K
    ELSE StatesFrom(s, i + 1,
             Append(K, IF K[i - 1] = "Normal"
                       THEN IF s[i - 1] = 27 THEN "Escaped" ELSE "Normal"
                       ELSE IF K[i - 1] = "Escaped"
                       THEN IF s[i - 1] = 91 THEN "Parsing" ELSE "Normal"
                       ELSE IF s[i - 1] = 109 THEN "Normal" ELSE "Parsing"))

StateSeq(s) == StatesFrom(s, 2, <<"Normal">>)

\* the parameter string of the SGR sequence whose final 'm' is at position e:
\* the characters consumed in state Parsing before it
RECURSIVE CodeBefore(_, _, _)
CodeBefore(s, K, e) ==
    IF e > 1 /\ K[e - 1] = "Parsing" THEN Append(CodeBefore(s, K, e - 1), s[e - 1]) ELSE <<>>

\* the foreground and background in effect before each character of s: the
\* default ones at first, changed by each finished SGR sequence, and by
\* nothing else
RECURSIVE StylesFrom(_, _, _, _)
StylesFrom(s, K, i, F) ==
    IF i > Len(s) + 1 THEN F
    ELSE StylesFrom(s, K, i + 1,
             Append(F, IF K[i - 1] = "Parsing" /\ s[i - 1] = 109
                       THEN SgrApply(CodeBefore(s, K, i - 1), F[i - 1].fg, F[i - 1].bg)
                       ELSE F[i - 1]))

StyleBefore(s) ==
    StylesFrom(s, StateSeq(s), 2,
               << [fg |-> <<"White", 0, 0, 0>>, bg |-> <<"None", 0, 0, 0>>] >>)

\* the positions at which pending text is flushed: an ESC or a newline
\* consumed in state Normal, and the end of the buffer
FlushPoints(s) ==
    LET K == StateSeq(s)
    IN Sorted({i \in 1..Len(s) : K[i] = "Normal" /\ s[i] \in {27, 10}} \cup {Len(s) + 1})

\* the positions of the text characters between two positions
TextPositions(s, a, b) ==
    LET K == StateSeq(s)
    IN {j \in a..b : \/ K[j] = "Normal" /\ s[j] \notin {27, 10, 13}
                     \/ K[j] = "Escaped" /\ s[j] # 91}

\* the spans of all the lines, in order
RECURSIVE AllSpans(_)
AllSpans(lines) == IF Len(lines) = 0 THEN <<>> ELSE Head(lines) \o AllSpans(Tail(lines))

\* the spans expected from flush point k on: one for each stretch between two
\* flush points that holds text, styled as at the flush
RECURSIVE SpansFrom(_, _, _, _, _)
SpansFrom(s, K, F, P, k) ==
    IF k > Len(P) THEN <<>>
    ELSE LET a == IF k = 1 THEN 1 ELSE P[k - 1] + 1
             text == TextBetween(s, K, a, P[k] - 1)
         IN (IF text = <<>> THEN <<>>
             ELSE << [content |-> text, fg |-> F[P[k]].fg, bg |-> F[P[k]].bg] >>)
              \o SpansFrom(s, K, F, P, k + 1)

\* C31: every span carries the foreground and background in effect when its
\* characters were consumed: pending text is flushed at an ESC, a newline or
\* the end with the style current there, which is the style every one of its
\* characters was consumed under, so that an SGR sequence styles only the
\* text after it.
C31_SpanStyle ==
    fcall.fn = "parse_ansi_codes" =>
        LET s == strip_mxp_tags(from_utf8_lossy(fcall.in))
            P == FlushPoints(s)
            F == StyleBefore(s)
        IN /\ AllSpans(fcall.out) = SpansFrom(s, StateSeq(s), F, P, 1)
           /\ \A k \in 1..Len(P) :
                 \A j \in TextPositions(s, IF k = 1 THEN 1 ELSE P[k - 1] + 1, P[k] - 1) :
                     F[j] = F[P[k]]

\* text, a colour change, and text again on one line
C31_Witness ==
    /\ fcall.fn = "parse_ansi_codes"
    /\ fcall.in = <<88, 27, 91, 51, 49, 109, 88>>
    /\ Len(fcall.out) = 1
    /\ Len(fcall.out[1]) = 2
    /\ fcall.out[1][1].fg # fcall.out[1][2].fg


\* the number of positions of a sequence that hold c
Count(t, c) == Cardinality({i \in 1..Len(t) : t[i] = c})

\* C32: in state Escaped a character other than '[' puts the parser back in
\* Normal and is pushed to the pending text as it is, a newline or a second
\* ESC included (the newline ends no line); the ESC that led to Escaped is
\* in no span.
C32_EscapedLiteral ==
    fcall.fn = "parse_ansi_codes" =>
        LET s == strip_mxp_tags(from_utf8_lossy(fcall.in))
            K == StateSeq(s)
            text == FullText(AllSpans(fcall.out))
            after == {i \in 1..Len(s) : K[i] = "Escaped" /\ s[i] # 91}
        IN /\ text = TextBetween(s, K, 1, Len(s))
           /\ Count(text, 27) = Cardinality({i \in after : s[i] = 27})
           /\ Count(text, 10) = Cardinality({i \in after : s[i] = 10})
           /\ Len(s) \in after => fcall.end.state = "Normal"
           /\ \A c \in {10, 13, 27, 88, 109} :
                 s = <<27, c>> =>
                     fcall.out = << << [content |-> <<c>>, fg |-> <<"White", 0, 0, 0>>,
                                        bg |-> <<"None", 0, 0, 0>>] >> >>

\* ESC, newline, X: one line, whose span holds the newline and the X
C32_Witness ==
    /\ fcall.fn = "parse_ansi_codes"
    /\ fcall.in = <<27, 10, 88>>
    /\ Len(fcall.out) = 1
    /\ fcall.out[1][1].content = <<10, 88>>


\* the parameter strings that name the background: 40..47 and 48;5;N
NamesBackground(key) ==
    \/ Len(key) = 2 /\ key[1] = 52 /\ key[2] \in 48..55
    \/ Len(key) >= 5 /\ SubSeq(key, 1, 5) = <<52, 56, 59, 53, 59>>

\* the span of X that parse_ansi_codes returns for ESC[<key>mX after the
\* sequences pre keeps the side the key does not name as it was before
OtherSideKept(pre, key, fg, bg) ==
    fcall.in = pre \o <<27, 91>> \o key \o <<109, 88>> =>
        /\ Len(fcall.out) = 1 /\ Len(fcall.out[1]) = 1
        /\ IF key = <<48>>
           THEN /\ fcall.out[1][1].fg = <<"White", 0, 0, 0>>
                /\ fcall.out[1][1].bg = <<"None", 0, 0, 0>>
           ELSE IF NamesBackground(key) THEN fcall.out[1][1].fg = fg
           ELSE fcall.out[1][1].bg = bg

UnfinishedFrom(s) ==
    LET K == StateSeq(s)
    IN CHOOSE u \in 1..Len(s) :
          /\ K[u] = "Normal" /\ s[u] = 27
          /\ \A i \in (u + 1)..(Len(s) + 1) : K[i] # "Normal"

\* the rest of an escape sequence: no ESC, newline or carriage return
IsRest(t) == Len(t) > 0 /\ \A i \in 1..Len(t) : t[i] \notin {27, 10, 13}

\* the buffer with a question mark, a character of no SGR key, in the place
\* of each newline that stands among the parameters of a sequence
NewlineAsParameter(s) ==
    LET K == StateSeq(s)
    IN [i \in 1..Len(s) |-> IF s[i] = 10 /\ K[i] = "Parsing" THEN 63 ELSE s[i]]

\* C34: a buffer that ends inside an escape sequence gives what the buffer
\* cut before that sequence gives, spans and colours: the unfinished sequence
\* is in no span and changes no style; the rest of the sequence, arriving as
\* the next buffer, comes out as one span of literal text in the default
\* style; and inside the parameters a newline is a parameter character like
\* any other: it closes no line, the sequence ends at its 'm', and ESC[3\n1m
\* is no colour.
C34_UnfinishedDiscarded ==
    fcall.fn = "parse_ansi_codes" =>
        LET s == strip_mxp_tags(from_utf8_lossy(fcall.in))
            K == StateSeq(s)
        IN /\ fcall.end.state = K[Len(s) + 1]
           /\ fcall.end.state # "Normal" =>
                 LET cut == SubSeq(s, 1, UnfinishedFrom(s) - 1)
                 IN /\ fcall.out = parse_ansi_codes(cut)
                    /\ fcall.end.fg = AnsiEnd(cut).fg
                    /\ fcall.end.bg = AnsiEnd(cut).bg
           /\ (fcall.before.state # "Normal" /\ IsRest(s)) =>
                 fcall.out = << << [content |-> s, fg |-> <<"White", 0, 0, 0>>,
                                    bg |-> <<"None", 0, 0, 0>>] >> >>
           /\ fcall.out = parse_ansi_codes(NewlineAsParameter(s))
           /\ Len(fcall.out) <=
                 Cardinality({i \in 1..Len(s) : s[i] = 10 /\ K[i] = "Normal"}) + 1
           /\ fcall.in = <<27, 91, 51, 10, 49, 109, 88>> =>
                 fcall.out = << << [content |-> <<88>>, fg |-> <<"White", 0, 0, 0>>,
                                    bg |-> <<"None", 0, 0, 0>>] >> >>

\* the call after a buffer that ended in ESC[ gets the 'm'
C34_Witness ==
    /\ fcall.fn = "parse_ansi_codes"
    /\ fcall.before.state = "Parsing"
    /\ fcall.in = <<109>>
    /\ fcall.out[1][1].content = <<109>>


(***************************************************************************)
(* Properties of the lines of a DataReceive event                          *)
(***************************************************************************)
\* the line's text contains "comm.channel", whatever the case, and the text
\* from its first '{' on is a comm.channel object
IsChatLine(line) ==
    LET t == FullText(line)
        b == FindBrace(t, 1)
    IN /\ Find(ToLower(t), <<W.comm, DOT, W.channel>>, 1) # 0
       /\ b # 0
       /\ LET cc == from_str(SubSeq(t, b, Len(t)))
          IN cc.ok /\ Deserializes(cc.val, CommChannel)

\* what is to be sent for each line: a ChatMessage, or the line as it is
LineEvents(lines) ==
    [i \in 1..Len(lines) |->
        IF IsChatLine(lines[i]) THEN <<"ChatMessage", <<>>, <<>>>>
        ELSE <<"MUDOutput", <<>>, lines[i]>>]

\* a message as the claim speaks of it: a ChatMessage, or a message with
\* what it carries
AsEvent(m) == IF m.type = "ChatMessage" THEN <<"ChatMessage", <<>>, <<>>>>
              ELSE <<m.type, m.vals, m.line>>
AsEvents(msgs) == [i \in 1..Len(msgs) |-> AsEvent(msgs[i])]

\* the events due for the decoded events handled so far, in order; a
\* subnegotiation whose update panicked sends nothing
RECURSIVE EventsDue(_)
EventsDue(n) ==
    IF n = 0 THEN <<>>
    ELSE EventsDue(n - 1) \o
           (IF Handled[n].ev.kind = "DataReceive"
            THEN LineEvents(parse_ansi_codes(Handled[n].ev.data))
            ELSE IF n = nHandled /\ pc \in {"panicked", "nego_write"} THEN <<>>
            ELSE AsEvents(EventMessages(Handled[n].ev)))

\* C35: the messages sent and those about to be sent are, in order, those of
\* the events handled so far, and for a DataReceive event one for each of its
\* lines, in line order: a ChatMessage for a line whose text contains
\* comm.channel and is a comm.channel object from its first '{' on, the line
\* unchanged in a MUDOutput otherwise; a message sent while the receiver is
\* there is put on the channel.
C35_OneEventPerLine ==
    /\ AsEvents(Sent \o outq) =
          EventsDue(nHandled) \o (IF lastRead \in {"eof", "err"} THEN <<AsEvent(Disconnect)>> ELSE <<>>)
    /\ \A i \in 1..Len(sendLog) : sendLog[i].ok \/ ~rxOpen

\* both lines of the chat stream have been sent in one read, the first as a
\* ChatMessage and the second, no comm.channel object, as it is
C35_Witness ==
    /\ scenario.stream = ChatStream
    /\ Len(readLog) = 1
    /\ Len(sendLog) >= 2
    /\ sendLog[1].msg.type = "ChatMessage" /\ sendLog[1].ok
    /\ sendLog[2].msg.type = "MUDOutput" /\ sendLog[2].ok
    /\ FullText(sendLog[2].msg.line) = <<W.comm, DOT, W.channel, SPACE, J.bob>>


(***************************************************************************)
(* Properties of the store: what an update leaves as it was                *)
(***************************************************************************)
\* the paths read: those written, and those one segment longer
ReadPaths == {Join(q, DOT) : q \in SegSeqs(MaxDepth + 1) \ {<<>>}} \cup {<<>>}

\* neither path is a prefix of the other, segment by segment
Unrelated(p, q) ==
    /\ ~IsPrefix(Split(p, DOT), Split(q, DOT))
    /\ ~IsPrefix(Split(q, DOT), Split(p, DOT))

\* the step is a call of update
IsUpdateCall == lastOp'.op = "update" /\ nOps' # nOps

\* C36: an update on path p leaves what get returns unchanged for every path
\* q such that neither p is a prefix of q nor q one of p, segment by segment.
C36_UpdateFrame ==
    [][ IsUpdateCall =>
          \A q \in ReadPaths :
              Unrelated(lastOp'.path, q) => get(store', q) = get(store, q) ]_vars

\* a.b has been written while a.a held a value, which it still holds
C36_Witness ==
    /\ lastOp.op = "update" /\ lastOp.ok
    /\ lastOp.path = <<97, DOT, 98>>
    /\ get(store, <<97, DOT, 97>>).some
    /\ get(store, <<98>>).some

\* path p ends before path q does and q goes on from it
ProperPrefix(p, q) ==
    IsPrefix(Split(p, DOT), Split(q, DOT)) /\ Len(Split(p, DOT)) < Len(Split(q, DOT))

\* C37 as stated: a path that get returns a value for is never absent after
\* an update, on whatever path.
C37_NoDeletion ==
    [][ IsUpdateCall =>
          \A q \in ReadPaths : get(store, q).some => get(store', q).some ]_vars

\* C37, amended: a path that get returns a value for is never absent after
\* an update on a path that is no proper prefix of it; an update on a proper
\* prefix of the path overwrites that leaf with all that was below it.
C37_NoDeletionAmended ==
    [][ IsUpdateCall =>
          \A q \in ReadPaths :
              (get(store, q).some /\ ~ProperPrefix(lastOp'.path, q)) => get(store', q).some ]_vars

\* an object written at a.b, whose entry a is read at a.b.a, after a.a, and
\* both are there
C37_Witness ==
    /\ lastOp.op = "update" /\ lastOp.ok
    /\ lastOp.path = <<97, DOT, 98>>
    /\ get(store, <<97, DOT, 98, DOT, 97>>).some
    /\ get(store, <<97, DOT, 97>>).some


(***************************************************************************)
(* Properties of the interface (specification SpecUi)                      *)
(***************************************************************************)
\* the last n lines of the first `count` lines, in the order of arrival
LastLines(count, n) == [i \in 1..n |-> count - n + i]

\* C38: no call on the AppState indexes command_history out of its bounds:
\* history_index is none or an index of command_history; the main scrollback
\* holds the last lines given to it, 2001 at most, and the chat scrollback
\* the last 1001 at most; and each scroll offset is between 0 and the length
\* of its scrollback.
C38_UiBounds ==
    /\ uiLog.ok
    /\ app.history_index.some =>
          (app.history_index.val >= 0 /\ app.history_index.val < Len(app.command_history))
    /\ Len(app.mud_output) <= 2001
    /\ Len(app.chat_output) <= 1001
    /\ app.mud_output = LastLines(uiLog.mudLines, Min(uiLog.mudLines, 2001))
    /\ app.chat_output = LastLines(uiLog.chatLines, Min(uiLog.chatLines, 1001))
    /\ app.scroll_offset >= 0 /\ app.scroll_offset <= Len(app.mud_output)
    /\ app.chat_scroll_offset >= 0 /\ app.chat_scroll_offset <= Len(app.chat_output)

\* the main scrollback is full and has dropped its first line, and the view
\* has been scrolled
C38_Witness ==
    /\ Len(app.mud_output) = 2001
    /\ app.mud_output[1] = 2
    /\ app.scroll_offset = 1

====
